---- MODULE Spec2Model ----
(***************************************************************************)
(* Verification model of DesktopAnimationTool (python).                    *)
(*                                                                         *)
(*   src/effects/flip_tile.py   FlipTile           -> section 1, SpecTile  *)
(*   src/effects/eyes.py        EyeEffect          -> section 2, SpecEye   *)
(*   src/effects/hidden.py      HiddenEffect       -> section 3, SpecHidden*)
(*   src/main.py                DesktopAnimationTool -> section 4, Spec    *)
(*   src/effects/polygon_selector.py PolygonSelector -> section 5,         *)
(*                                                   SpecSelector          *)
(*                                                                         *)
(* Every specification constrains all variables; the objects a             *)
(* specification does not exercise stay at the value None.                 *)
(*                                                                         *)
(* Conventions.  Angles are whole degrees.  An effect's `time` is counted  *)
(* in update ticks (each tick adds 1/FPS seconds).  Bitmaps of tiles are   *)
(* symbolic: the source rectangle they were cut from plus the mirrorings   *)
(* applied since (a generic image, on which no mirroring is the identity). *)
(***************************************************************************)
EXTENDS Integers, Sequences, FiniteSets, TLC

VARIABLES
    tile,       \* SpecTile: one FlipTile object
    eye,        \* the EyeEffect object (None when absent)
    hidden,     \* the HiddenEffect object (None when absent)
    synth,      \* SpecHidden: position and locals of _apply_inpainting
    tool,       \* the DesktopAnimationTool object's own fields
    tiles,      \* DesktopAnimationTool.tiles, a sequence of FlipTile objects
    clock,      \* last value returned by pygame.time.get_ticks() (ms)
    selector    \* SpecSelector: the PolygonSelector object

vars == <<tile, eye, hidden, synth, tool, tiles, clock, selector>>

\* Python's None, for an object that is absent.
None == [none |-> TRUE]

Min(a, b) == IF a < b THEN a ELSE b
Max(a, b) == IF a > b THEN a ELSE b

\* s[::-1]
Reversed(s) == [i \in 1..Len(s) |-> s[Len(s) + 1 - i]]

(***************************************************************************)
(* 0. config.py                                                            *)
(***************************************************************************)
FPS == 60
FLIP_SPEED == 5
MIN_SQUARE_SIZE == 20
MAX_SQUARE_SIZE == 200

(***************************************************************************)
(* 1. FlipTile (src/effects/flip_tile.py)                                  *)
(***************************************************************************)
LINE_FADE_SPEED == 5

\* random.randint(1, 4)
TargetFlipsRange == 1..4
\* random.choice(['horizontal', 'vertical'])
FlipDirections == {"horizontal", "vertical"}
\* FLIP_SPEED + random.uniform(-2, 2), whole degrees per tick
SpeedJitter == 2
FlipSpeeds == (FLIP_SPEED - SpeedJitter)..(FLIP_SPEED + SpeedJitter)

\* The random draws one FlipTile construction makes: target_flips,
\* flip_direction, flip_speed and the two coin flips of the scrambled start.
TileDraws ==
    [target_flips : TargetFlipsRange, flip_direction : FlipDirections,
     flip_speed : FlipSpeeds, pre_h : BOOLEAN, pre_v : BOOLEAN]

\* The size x size portion of the image at (x, y): blit(original_image,
\* (0, 0), (x, y, size, size)) onto a fresh surface.
TileSurface(x, y, size) ==
    [x |-> x, y |-> y, size |-> size, fx |-> FALSE, fy |-> FALSE, feather |-> 0]

\* pygame.transform.flip(surface, flip_x, flip_y)
Flip(s, flip_x, flip_y) ==
    [s EXCEPT !.fx = (s.fx # flip_x), !.fy = (s.fy # flip_y)]

\* _create_soft_edge_surface: a copy, with alpha faded over `edge` pixels
\* from each border when edge > 0.
CreateSoftEdgeSurface(s, edge) ==
    IF edge <= 0 THEN s ELSE [s EXCEPT !.feather = edge]

\* One application of the tile's flip (the body of the for loop).
FlipOnce(s, flip_direction) ==
    IF flip_direction = "horizontal" THEN Flip(s, TRUE, FALSE)
    ELSE Flip(s, FALSE, TRUE)

\* current after the two optional scrambling flips.
Scrambled(s, pre_h, pre_v) ==
    LET a == IF pre_h THEN Flip(s, TRUE, FALSE) ELSE s
    IN  IF pre_v THEN Flip(a, FALSE, TRUE) ELSE a

RECURSIVE FlipChain(_, _, _)
\* [current, flip(current), ..., flip^n(current)]
FlipChain(s, flip_direction, n) ==
    IF n = 0 THEN <<s>>
    ELSE <<s>> \o FlipChain(FlipOnce(s, flip_direction), flip_direction, n - 1)

\* Mutant of ForceFinal: the last state is left as the flips produced it.
ForceFinalSkipped(seq, original) == seq

\* flip_surfaces[-1] = self.original_surface
ForceFinal(seq, original) == [seq EXCEPT ![Len(seq)] = original]

\* The sequence _precompute_flip_states builds from one starting surface.
FlipStates(original, d, reverse) ==
    LET built == ForceFinal(
            FlipChain(Scrambled(original, d.pre_h, d.pre_v),
                      d.flip_direction, d.target_flips),
            original)
    IN  IF reverse THEN Reversed(built) ELSE built

\* FlipTile.__init__ with the random draws d.
FlipTileNew(x, y, size, delay, edge_softness, reverse, d) ==
    LET original_surface == TileSurface(x, y, size)
        original_soft == CreateSoftEdgeSurface(original_surface, edge_softness)
        flip_surfaces == FlipStates(original_surface, d, reverse)
        flip_surfaces_soft == FlipStates(original_soft, d, reverse)
    IN  [x |-> x, y |-> y, size |-> size, delay |-> delay,
         edge_softness |-> edge_softness, reverse |-> reverse,
         original_surface |-> original_surface,
         original_soft |-> original_soft,
         flip_angle |-> 0,
         target_flips |-> d.target_flips,
         total_rotation |-> d.target_flips * 180,
         flip_direction |-> d.flip_direction,
         flip_speed |-> d.flip_speed,
         is_animating |-> FALSE,
         is_complete |-> FALSE,
         current_delay |-> delay,
         line_alpha |-> IF ~reverse THEN 255 ELSE 0,
         flip_surfaces |-> flip_surfaces,
         flip_surfaces_soft |-> flip_surfaces_soft,
         final_surface |-> flip_surfaces[Len(flip_surfaces)],
         final_surface_soft |-> flip_surfaces_soft[Len(flip_surfaces_soft)]]

\* update(), the is_complete branch: only the cut-line fade goes on.
\* Mutant of CompleteFade: the finished tile is also marked as not animating.
CompleteFadeStopsAnimating(t) ==
    [t EXCEPT !.is_animating = FALSE,
              !.line_alpha = IF t.reverse
                             THEN Min(255, t.line_alpha + LINE_FADE_SPEED * 2)
                             ELSE Max(0, t.line_alpha - LINE_FADE_SPEED)]

CompleteFade(t) ==
    IF t.reverse
    THEN IF t.line_alpha < 255
         THEN [t EXCEPT !.line_alpha = Min(255, t.line_alpha + LINE_FADE_SPEED * 2)]
         ELSE t
    ELSE IF t.line_alpha > 0
         THEN [t EXCEPT !.line_alpha = Max(0, t.line_alpha - LINE_FADE_SPEED)]
         ELSE t

\* update(), line 135-136: a reverse tile fades its lines in while animating.
AnimatingFade(t) ==
    IF t.reverse /\ t.is_animating /\ t.line_alpha < 255
    THEN [t EXCEPT !.line_alpha = Min(255, t.line_alpha + LINE_FADE_SPEED)]
    ELSE t

\* Mutant of AdvanceAngle: the angle is not clamped to total_rotation.
AdvanceAngleUnclamped(t) ==
    LET a == t.flip_angle + t.flip_speed
    IN  [t EXCEPT !.is_animating = TRUE, !.flip_angle = a,
                  !.is_complete = (a >= t.total_rotation)]

\* Mutant of AdvanceAngle: the angle stops one step short of the end.
AdvanceAngleStopsShort(t) ==
    LET a == t.flip_angle + t.flip_speed
    IN  IF a >= t.total_rotation THEN [t EXCEPT !.is_animating = TRUE]
        ELSE [t EXCEPT !.is_animating = TRUE, !.flip_angle = a]

\* update(), line 142-149: start_animation() if needed, add flip_speed,
\* clamp and complete at total_rotation.
AdvanceAngle(t) ==
    LET a == t.flip_angle + t.flip_speed
    IN  IF a >= t.total_rotation
        THEN [t EXCEPT !.is_animating = TRUE,
                       !.flip_angle = t.total_rotation, !.is_complete = TRUE]
        ELSE [t EXCEPT !.is_animating = TRUE, !.flip_angle = a]

\* Mutant of FlipTileUpdate: the delay is counted down while the tile
\* already turns.
FlipTileUpdateTurnsWhileDelayed(t) ==
    IF t.is_complete THEN CompleteFade(t)
    ELSE LET u == AnimatingFade(t)
         IN  IF u.current_delay > 0
             THEN AdvanceAngle([u EXCEPT !.current_delay = u.current_delay - 1])
             ELSE AdvanceAngle(u)

\* FlipTile.update()
FlipTileUpdate(t) ==
    IF t.is_complete THEN CompleteFade(t)
    ELSE LET u == AnimatingFade(t)
         IN  IF u.current_delay > 0
             THEN [u EXCEPT !.current_delay = u.current_delay - 1]
             ELSE AdvanceAngle(u)

\* Mutant of DrawIndex: the state is not switched at the half flip.
DrawIndexNoHalfSwitch(t) ==
    IF t.is_complete THEN Len(t.flip_surfaces) - 1
    ELSE IF ~t.is_animating THEN 0
    ELSE Min(t.flip_angle \div 180, Len(t.flip_surfaces) - 2)

\* draw(), lines 153-173: the 0-based index into flip_surfaces of the bitmap
\* drawn (final_surface is flip_surfaces[-1], line 117).
DrawIndex(t) ==
    IF t.is_complete THEN Len(t.flip_surfaces) - 1
    ELSE IF ~t.is_animating THEN 0
    ELSE LET flip_index == Min(t.flip_angle \div 180, Len(t.flip_surfaces) - 2)
             angle_in_flip == t.flip_angle % 180
         IN  IF angle_in_flip < 90 THEN flip_index ELSE flip_index + 1

\* draw(): the bitmap drawn (before scaling), lines 153-173.
DrawSurface(t, use_soft_edges) ==
    IF t.is_complete THEN t.final_surface
    ELSE IF use_soft_edges THEN t.flip_surfaces_soft[DrawIndex(t) + 1]
    ELSE t.flip_surfaces[DrawIndex(t) + 1]

\* The cut-line fade of a tile is finished (main.py line 226).
LinesDone(t, reverse) ==
    IF reverse THEN t.line_alpha >= 255 ELSE t.line_alpha <= 0

(***************************************************************************)
(* SpecTile: one tile, any draws, any small delay, then update() forever.  *)
(***************************************************************************)
MaxTileDelay == 2
TileSize == 20
TileEdges == {0, 6}

Idle ==
    /\ eye = None /\ hidden = None /\ synth = None
    /\ tool = None /\ tiles = <<>> /\ clock = 0 /\ selector = None

InitTile ==
    /\ \E d \in TileDraws, delay \in 0..MaxTileDelay, reverse \in BOOLEAN,
          edge \in TileEdges :
          tile = FlipTileNew(0, 0, TileSize, delay, edge, reverse, d)
    /\ Idle

TileUpdate ==
    /\ tile' = FlipTileUpdate(tile)
    /\ UNCHANGED <<eye, hidden, synth, tool, tiles, clock, selector>>

NextTile == TileUpdate

SpecTile == InitTile /\ [][NextTile]_vars

(***************************************************************************)
(* 2. EyeEffect (src/effects/eyes.py)                                      *)
(*                                                                         *)
(* Surfaces are functions from pixel <<x, y>> to a grey value 0..255 (the  *)
(* code treats the three channels alike).  math.sin is evaluated in fixed  *)
(* point: angles in 1e-6 rad, values in 1e-4, by range reduction and the   *)
(* Taylor polynomial up to x^9 (absolute error below 1e-3).                *)
(***************************************************************************)
\* The element of a one-element set; binds a value once where an operator
\* uses it for every pixel.
Only(S) == CHOOSE v \in S : TRUE

MAX_SHIFT == 8
EYE_PAD_MARGIN == 5
ANIMATION_DURATION == 10

HalfPiE6 == 1570796
PiE6 == 3141593
TwoPiE6 == 6283185
E4 == 10000

Abs(a) == IF a < 0 THEN -a ELSE a
Sign(a) == IF a < 0 THEN -1 ELSE 1

\* int(v) for v given in 1e-4 units: truncation toward zero.
IntTrunc(vE4) == Sign(vE4) * (Abs(vE4) \div E4)

\* sin of x in [0, pi/2], x in 1e-4 rad, result in 1e-4.
SinTaylorE4(x) ==
    LET x2 == (x * x) \div E4
        t3 == (x * x2) \div (E4 * 6)
        t5 == (t3 * x2) \div (E4 * 20)
        t7 == (t5 * x2) \div (E4 * 42)
        t9 == (t7 * x2) \div (E4 * 72)
    IN  x - t3 + t5 - t7 + t9

\* math.sin(a), a >= 0 in 1e-6 rad, result in 1e-4.
SinE4(aE6) ==
    LET r == aE6 % TwoPiE6
        x == IF r <= HalfPiE6 THEN r
             ELSE IF r <= PiE6 + HalfPiE6 THEN PiE6 - r
             ELSE r - TwoPiE6
    IN  Sign(x) * SinTaylorE4(Abs(x) \div 100)

\* self.time * m in 1e-6 rad after k ticks of 1/FPS s, m given in 1e-2.
TimeAngleE6(k, mE2) == (k * mE2 * 1000) \div 6

\* look_x after k ticks, in 1e-4 pixels (lines 298, 300):
\* sin(time * look_speed * 2) * max_shift + sin(time * 3.7) * 2
LookXE4(k) ==
    SinE4(TimeAngleE6(k, 100)) * MAX_SHIFT + SinE4(TimeAngleE6(k, 370)) * 2

\* look_y after k ticks, in 1e-4 pixels (lines 299, 301):
\* sin(time * look_speed * 1.5 + 1) * max_shift * 0.5 + sin(time * 2.3) * 1
LookYE4(k) ==
    (SinE4(TimeAngleE6(k, 75) + 1000000) * MAX_SHIFT) \div 2
        + SinE4(TimeAngleE6(k, 230))

\* The pixels of a w x h surface.
Pixels(w, h) == (0..(w - 1)) \X (0..(h - 1))

\* surface.subsurface(Rect(x1, y1, w, h)).copy()
SubsurfaceCopy(img, x1, y1, w, h) ==
    [q \in Pixels(w, h) |-> img[<<x1 + q[1], y1 + q[2]>>]]

\* target.blit(src, (px, py)) for an opaque source inside the target.
Blit(target, src, px, py) ==
    Only({ [p \in DOMAIN t |->
               IF <<p[1] - px, p[2] - py>> \in DOMAIN s
               THEN s[<<p[1] - px, p[2] - py>>] ELSE t[p]] :
           t \in {target}, s \in {src} })

\* One eye_info as the three constructors build it (lines 53-71, 86-103,
\* 196-208) from a box (x, y, w, h).
EyeInfo(img, W, H, box) ==
    LET pad == MAX_SHIFT + EYE_PAD_MARGIN
        x1 == Max(0, box.x - pad)
        y1 == Max(0, box.y - pad)
        x2 == Min(W, box.x + box.w + pad)
        y2 == Min(H, box.y + box.h + pad)
    IN  [x |-> box.x, y |-> box.y, w |-> box.w, h |-> box.h,
         center_x |-> box.x + box.w \div 2,
         center_y |-> box.y + box.h \div 2,
         padded_rect |-> <<x1, y1, x2 - x1, y2 - y1>>,
         original_pixels |-> SubsurfaceCopy(img, x1, y1, x2 - x1, y2 - y1),
         current_shift_x |-> 0, current_shift_y |-> 0]

\* EyeEffect.__init__ with the eye boxes the chosen source supplies.
EyeEffectNew(img, W, H, boxes) ==
    [screen_width |-> W, screen_height |-> H,
     original |-> img, current_surface |-> img,
     time |-> 0, is_complete |-> FALSE,
     eyes |-> [i \in 1..Len(boxes) |-> EyeInfo(img, W, H, boxes[i])],
     max_shift |-> MAX_SHIFT, animation_duration |-> ANIMATION_DURATION]

\* int(inner * pupil_scale) with pupil_scale = 0.7
PupilSize(inner) == (inner * 7) \div 10

\* The largest n with n * n <= v.
RECURSIVE ISqrtFrom(_, _, _)
\* by bisection: lo * lo <= v < (hi + 1) * (hi + 1)
ISqrtFrom(v, lo, hi) ==
    IF lo = hi THEN lo
    ELSE Only({ IF mid * mid <= v THEN ISqrtFrom(v, mid, hi)
                ELSE ISqrtFrom(v, lo, mid - 1) :
                mid \in {(lo + hi + 1) \div 2} })
ISqrt(v) == ISqrtFrom(v, 0, Min(v, 46340))

\* The pixel _shift_eye_pixels leaves at (x, y) of the pupil rectangle:
\* untouched outside the unit ellipse, the shifted pixel within 70% of the
\* radius, a linear blend of both in between (lines 251-280).
PupilPixel(x, y, pupil_w, pupil_h, shifted, orig) ==
    LET ax == 2 * (x - pupil_w \div 2)
        ay == 2 * (y - pupil_h \div 2)
        \* dist^2 = num / den
        num == ax * ax * pupil_h * pupil_h + ay * ay * pupil_w * pupil_w
        den == pupil_w * pupil_w * pupil_h * pupil_h
        distE3 == ISqrt((num * 10000) \div den) * 10
        blendE3 == Max(0, Min(1000, 1000 - ((distE3 - 700) * 10) \div 3))
    IN  IF num >= den THEN orig
        ELSE IF 100 * num < 49 * den THEN shifted
        ELSE (shifted * blendE3 + orig * (1000 - blendE3)) \div 1000

\* Mutant of PupilRect: the crop is taken relative to the corner of the eye
\* box instead of the corner of the centred pupil rectangle.
PupilRectFromBox(e, sx, sy) ==
    LET pw == e.padded_rect[3]
        ph == e.padded_rect[4]
        pupil_w == PupilSize(e.w)
        pupil_h == PupilSize(e.h)
        inner_x == e.x - e.padded_rect[1]
        inner_y == e.y - e.padded_rect[2]
    IN  [pupil_x |-> inner_x + (e.w - pupil_w) \div 2,
         pupil_y |-> inner_y + (e.h - pupil_h) \div 2,
         pupil_w |-> pupil_w, pupil_h |-> pupil_h,
         src_x |-> Max(0, Min(pw - pupil_w, inner_x - sx)),
         src_y |-> Max(0, Min(ph - pupil_h, inner_y - sy))]

\* The rectangles _shift_eye_pixels computes for integer shifts (sx, sy)
\* (lines 219-235): the pupil rectangle it writes to and the crop it samples,
\* both in coordinates of the padded buffer.
PupilRect(e, sx, sy) ==
    LET pw == e.padded_rect[3]
        ph == e.padded_rect[4]
        pupil_w == PupilSize(e.w)
        pupil_h == PupilSize(e.h)
        pupil_x == (e.x - e.padded_rect[1]) + (e.w - pupil_w) \div 2
        pupil_y == (e.y - e.padded_rect[2]) + (e.h - pupil_h) \div 2
    IN  [pupil_x |-> pupil_x, pupil_y |-> pupil_y,
         pupil_w |-> pupil_w, pupil_h |-> pupil_h,
         src_x |-> Max(0, Min(pw - pupil_w, pupil_x - sx)),
         src_y |-> Max(0, Min(ph - pupil_h, pupil_y - sy))]

\* dist < 1.0 at (x, y) of the pupil rectangle (lines 253-258).
InsideEllipse(x, y, pupil_w, pupil_h) ==
    LET ax == 2 * (x - pupil_w \div 2)
        ay == 2 * (y - pupil_h \div 2)
    IN  ax * ax * pupil_h * pupil_h + ay * ay * pupil_w * pupil_w
            < pupil_w * pupil_w * pupil_h * pupil_h

\* The surface `result` of _shift_eye_pixels for integer shifts (sx, sy).
ShiftedEye(e, sx, sy) ==
    Only({ [q \in DOMAIN buf |->
               LET x == q[1] - g.pupil_x
                   y == q[2] - g.pupil_y
                   \* pupil_surface: black where the crop leaves the buffer
                   pupil == IF <<g.src_x + x, g.src_y + y>> \in DOMAIN buf
                            THEN buf[<<g.src_x + x, g.src_y + y>>] ELSE 0
               IN  IF x >= 0 /\ x < g.pupil_w /\ y >= 0 /\ y < g.pupil_h
                   THEN PupilPixel(x, y, g.pupil_w, g.pupil_h, pupil, buf[q])
                   ELSE buf[q]] :
           g \in {PupilRect(e, sx, sy)}, buf \in {e.original_pixels} })

\* _shift_eye_pixels(eye_info, shift_x, shift_y) applied to current_surface;
\* the shifts are given in 1e-4 pixels.
ShiftEyePixels(cur, e, shift_xE4, shift_yE4) ==
    Blit(cur, ShiftedEye(e, IntTrunc(shift_xE4), IntTrunc(shift_yE4)),
         e.padded_rect[1], e.padded_rect[2])

RECURSIVE ShiftAllEyes(_, _, _, _, _)
\* for eye in self.eyes: self._shift_eye_pixels(eye, look_x, look_y)
ShiftAllEyes(cur, eyes, i, lx, ly) ==
    IF i > Len(eyes) THEN cur
    ELSE ShiftAllEyes(ShiftEyePixels(cur, eyes[i], lx, ly), eyes, i + 1, lx, ly)

\* Mutant of EyeCompleted: the last shifted frame is kept on completion.
EyeCompletedKeepsFrame(ef, t) == [ef EXCEPT !.time = t, !.is_complete = TRUE]

\* update(), lines 291-294: the animation is over.
EyeCompleted(ef, t) ==
    [ef EXCEPT !.time = t, !.is_complete = TRUE, !.current_surface = ef.original]

\* Mutant of EyeShifted: line 296 without copy(), so that the eyes are
\* drawn into the original itself.
EyeShiftedInPlace(ef, t) ==
    LET frame == ShiftAllEyes(ef.original, ef.eyes, 1, LookXE4(t), LookYE4(t))
    IN  [ef EXCEPT !.time = t, !.current_surface = frame, !.original = frame]

\* update(), lines 296-304: a fresh copy of the original with every eye
\* shifted by the gaze offset of tick t.
EyeShifted(ef, t) ==
    [ef EXCEPT !.time = t,
               !.current_surface =
                   ShiftAllEyes(ef.original, ef.eyes, 1,
                                LookXE4(t), LookYE4(t))]

\* EyeEffect.update().  time >= animation_duration is decided on the tick
\* count: after k additions of 1/FPS the float sum is >= 10.0 from k = 600.
EyeEffectUpdate(ef) ==
    IF ef.is_complete \/ Len(ef.eyes) = 0 THEN ef
    ELSE LET t == ef.time + 1
         IN  IF t >= ef.animation_duration * FPS
             THEN EyeCompleted(ef, t)
             ELSE EyeShifted(ef, t)

\* Mutant of EyeEffectRestart: a finished effect stays finished.
EyeEffectRestartKeepsComplete(ef) == [ef EXCEPT !.time = 0]

\* EyeEffect.restart()
EyeEffectRestart(ef) == [ef EXCEPT !.time = 0, !.is_complete = FALSE]

(***************************************************************************)
(* SpecEye: an EyeEffect over a small image, update() and restart().       *)
(***************************************************************************)
EyeScreenW == 8
EyeScreenH == 6

\* A source image whose pixels are pairwise different.
EyeImage == [p \in Pixels(EyeScreenW, EyeScreenH) |->
                (3 * (p[1] + EyeScreenW * p[2]) + 7) % 256]

Box(x, y, w, h) == [x |-> x, y |-> y, w |-> w, h |-> h]

\* The eye lists tried: none, one degenerate 1x1 eye, one eye whose pupil
\* has a blend ring, two eyes with overlapping padded rectangles, one eye
\* touching the right and bottom screen edges, one eye that starts inside
\* the screen and extends past its right edge.
EyeBoxLists ==
    { <<>>,
      <<Box(0, 0, 1, 1)>>,
      <<Box(1, 0, 6, 6)>>,
      <<Box(0, 1, 4, 2), Box(3, 2, 5, 3)>>,
      <<Box(EyeScreenW - 3, EyeScreenH - 2, 3, 2)>>,
      <<Box(3, 0, 2 * EyeScreenW, 2)>> }

InitEye ==
    /\ \E boxes \in EyeBoxLists :
          eye = EyeEffectNew(EyeImage, EyeScreenW, EyeScreenH, boxes)
    /\ tile = None /\ hidden = None /\ synth = None
    /\ tool = None /\ tiles = <<>> /\ clock = 0 /\ selector = None

EyeUpdate ==
    /\ eye' = EyeEffectUpdate(eye)
    /\ UNCHANGED <<tile, hidden, synth, tool, tiles, clock, selector>>

EyeRestart ==
    /\ eye' = EyeEffectRestart(eye)
    /\ UNCHANGED <<tile, hidden, synth, tool, tiles, clock, selector>>

NextEye == EyeUpdate \/ EyeRestart

SpecEye == InitEye /\ [][NextEye]_vars

(***************************************************************************)
(* 3. HiddenEffect (src/effects/hidden.py)                                 *)
(*                                                                         *)
(* Masks are sets of pixels (value 255 = member).  Pixel values of the     *)
(* images of this section are symbolic records that say where the value    *)
(* comes from:                                                             *)
(*   tag "orig"    the source image at (x, y)                              *)
(*   tag "clone"   source_resized[y, x] of region r                        *)
(*   tag "fill"    the mean colour of region r's sample band, plus noise   *)
(*   tag "inpaint" the value cv2.inpaint computed for (x, y)               *)
(*   tag "fade"    original and hidden composite at (x, y), alpha r        *)
(* mixed = TRUE marks a value that went through the bilateral filter and   *)
(* the feather blend with the original (lines 149-152).                    *)
(***************************************************************************)
REVEAL_DURATION == 2
HOLD_DURATION == 8

Px(tag, x, y, r) == [tag |-> tag, x |-> x, y |-> y, r |-> r, mixed |-> FALSE]

\* The source image handed to the effect.
SourceImage(W, H) == [p \in Pixels(W, H) |-> Px("orig", p[1], p[2], 0)]

\* (b - a) x (p - a)
Cross(a, b, p) ==
    (b[1] - a[1]) * (p[2] - a[2]) - (b[2] - a[2]) * (p[1] - a[1])

\* cv2.fillPoly(mask, [pts], 255) for a convex polygon with integer
\* vertices: the pixels of the closed polygon that lie on the image.
FillPoly(pts, W, H) ==
    LET n == Len(pts)
        nxt(i) == IF i = n THEN 1 ELSE i + 1
        inbox(p) == /\ \E i \in 1..n : pts[i][1] <= p[1]
                    /\ \E i \in 1..n : pts[i][1] >= p[1]
                    /\ \E i \in 1..n : pts[i][2] <= p[2]
                    /\ \E i \in 1..n : pts[i][2] >= p[2]
    IN  {p \in Pixels(W, H) :
            /\ inbox(p)
            /\ \/ \A i \in 1..n : Cross(pts[i], pts[nxt(i)], p) >= 0
               \/ \A i \in 1..n : Cross(pts[i], pts[nxt(i)], p) <= 0}

\* Mutant of FillRectangle: the far corner is left out (w x h pixels).
FillRectangleHalfOpen(x, y, w, h, W, H) ==
    {p \in Pixels(W, H) : p[1] >= x /\ p[1] < x + w /\ p[2] >= y /\ p[2] < y + h}

\* cv2.rectangle(mask, (x, y), (x + w, y + h), 255, -1): both corners are
\* part of the filled rectangle.
FillRectangle(x, y, w, h, W, H) ==
    {p \in Pixels(W, H) : p[1] >= x /\ p[1] <= x + w /\ p[2] >= y /\ p[2] <= y + h}

\* cv2.dilate with a kernel of ones whose offsets from the anchor are lo..hi
\* on both axes, one iteration.
Dilate(mask, lo, hi, W, H) ==
    {p \in Pixels(W, H) :
        \E q \in mask : /\ q[1] - p[1] >= lo /\ q[1] - p[1] <= hi
                        /\ q[2] - p[2] >= lo /\ q[2] - p[2] <= hi}

\* cv2.erode with the 3x3 kernel (used by a mutant only).
Erode3(mask, W, H) ==
    {p \in mask : \A q \in Pixels(W, H) :
        (Abs(q[1] - p[1]) <= 1 /\ Abs(q[2] - p[2]) <= 1) => q \in mask}

\* The region's own mask (lines 80-87 and 97-99).
RegionMask(region, W, H) ==
    IF Len(region.polygon) >= 3 THEN FillPoly(region.polygon, W, H)
    ELSE FillRectangle(region.x, region.y, region.w, region.h, W, H)

RECURSIVE CompositeMask(_, _, _, _)
\* The mask of all regions (lines 78-87).
CompositeMask(regions, i, W, H) ==
    IF i > Len(regions) THEN {}
    ELSE RegionMask(regions[i], W, H) \cup CompositeMask(regions, i + 1, W, H)

\* The region takes the clone branch (line 101).
HasSource(region) == Len(region.source_polygon) >= 3

\* The clone branch copies (line 110).
CloneBoxesOk(region) ==
    /\ region.source_w > 0 /\ region.source_h > 0
    /\ region.w > 0 /\ region.h > 0

\* Index of the source pixel cv2.resize(..., INTER_NEAREST) reads for
\* destination index d, from a source of size sn to a destination of size dn.
NearestIndex(d, sn, dn) == Min((d * sn) \div dn, sn - 1)

\* source_mask_resized[dy, dx] > 0 (lines 114-118)
SourceMaskResized(region, dx, dy, W, H) ==
    <<region.source_x + NearestIndex(dx, region.source_w, region.w),
      region.source_y + NearestIndex(dy, region.source_h, region.h)>>
        \in FillPoly(region.source_polygon, W, H)

\* The target pixels the clone loop writes (lines 120-125).
ClonedPixels(region, W, H) ==
    IF ~CloneBoxesOk(region) THEN {}
    ELSE {p \in Pixels(W, H) :
            LET dx == p[1] - region.x
                dy == p[2] - region.y
            IN  /\ dx >= 0 /\ dx < region.w /\ dy >= 0 /\ dy < region.h
                /\ p \in FillPoly(region.polygon, W, H)
                /\ SourceMaskResized(region, dx, dy, W, H)}

\* The pixels the flat-fill pre-pass writes (lines 128-141): the region, if
\* its sample band is not empty.
FilledPixels(region, W, H) ==
    LET region_mask == FillPoly(region.polygon, W, H)
        mask_dilated == Dilate(Dilate(region_mask, -10, 9, W, H), -10, 9, W, H)
        sample_band == mask_dilated \ region_mask
    IN  IF sample_band # {} THEN region_mask ELSE {}

\* One iteration of the loop over the regions (lines 90-141).
ProcessRegion(result, regions, i, W, H) ==
    LET region == regions[i]
    IN  IF Len(region.polygon) < 3 THEN result
        ELSE IF HasSource(region)
        THEN [p \in DOMAIN result |->
                IF p \in ClonedPixels(region, W, H)
                THEN Px("clone", p[1] - region.x, p[2] - region.y, i)
                ELSE result[p]]
        ELSE [p \in DOMAIN result |->
                IF p \in FilledPixels(region, W, H)
                THEN Px("fill", 0, 0, i) ELSE result[p]]

RECURSIVE ProcessRegions(_, _, _, _, _)
ProcessRegions(result, regions, i, W, H) ==
    IF i > Len(regions) THEN result
    ELSE ProcessRegions(ProcessRegion(result, regions, i, W, H),
                        regions, i + 1, W, H)

\* Mutant of InpaintMask: the mask is shrunk instead of grown.
InpaintMaskEroded(mask, W, H) == Erode3(mask, W, H)

\* mask_inpaint = cv2.dilate(mask, np.ones((3, 3)), iterations=1)
InpaintMask(mask, W, H) == Dilate(mask, -1, 1, W, H)

\* cv2.inpaint(result, mask_inpaint, 8, cv2.INPAINT_TELEA): every pixel of
\* the mask is recomputed from the pixels outside it; the others are kept.
Inpaint(result, mask_inpaint) ==
    [p \in DOMAIN result |->
        IF p \in mask_inpaint THEN Px("inpaint", p[1], p[2], 0) ELSE result[p]]

\* mask_feather > 0 at p: the 15x15 Gaussian window around p meets the mask.
FeatherPositive(mask, p) ==
    \E q \in mask : Abs(q[1] - p[1]) <= 7 /\ Abs(q[2] - p[2]) <= 7

\* final_result (lines 149-152): the filtered result, weighted by the
\* feathered mask, over the original.
FeatherBlend(result, original_image, mask) ==
    [p \in DOMAIN result |->
        IF FeatherPositive(mask, p) THEN [result[p] EXCEPT !.mixed = TRUE]
        ELSE original_image[p]]

\* _apply_inpainting from line 69 on: the hidden composite.
HiddenComposite(original, regions, W, H) ==
    LET mask == CompositeMask(regions, 1, W, H)
        cloned == ProcessRegions(original, regions, 1, W, H)
        result == Inpaint(cloned, InpaintMask(mask, W, H))
    IN  FeatherBlend(result, original, mask)

\* _process_regions: one stored region, with the defaults of region.get.
Region(polygon, source_polygon, x, y, w, h, sx, sy, sw, sh) ==
    [polygon |-> polygon, source_polygon |-> source_polygon,
     x |-> x, y |-> y, w |-> w, h |-> h,
     source_x |-> sx, source_y |-> sy, source_w |-> sw, source_h |-> sh]

\* HiddenEffect.__init__ up to the call of _apply_inpainting.
HiddenEffectInit(img, W, H, regions) ==
    [screen_width |-> W, screen_height |-> H,
     original |-> img, current_surface |-> img, hidden_surface |-> None,
     time |-> 0, is_complete |-> FALSE, regions |-> regions,
     reveal_duration |-> REVEAL_DURATION, hold_duration |-> HOLD_DURATION,
     animation_duration |-> REVEAL_DURATION + HOLD_DURATION]

\* Mutant of UnavailableSurface: without OpenCV the hidden surface is a
\* flat fill instead of a copy of the original.
UnavailableSurfaceFilled(original) ==
    [p \in DOMAIN original |-> [original[p] EXCEPT !.tag = "fill"]]

\* Line 66: the hidden surface when OpenCV can not be imported.
UnavailableSurface(original) == original

\* HiddenEffect.__init__, whole (polygon_data not empty).
HiddenEffectNew(img, W, H, regions, has_cv2) ==
    [HiddenEffectInit(img, W, H, regions) EXCEPT
        !.hidden_surface = IF has_cv2 THEN HiddenComposite(img, regions, W, H)
                           ELSE UnavailableSurface(img)]

\* int(255 * progress) with progress = smoothstep(time / reveal_duration),
\* time = k / FPS.
RevealAlpha(k, reveal_duration) ==
    LET n == reveal_duration * FPS
    IN  (255 * k * k * (3 * n - 2 * k)) \div (n * n * n)

\* One pixel of original.copy() after blit of the hidden surface with
\* set_alpha(a).
CrossFadePixel(o, h, a, p) ==
    IF a = 0 \/ o = h THEN o
    ELSE IF a = 255 THEN h
    ELSE Px("fade", p[1], p[2], a)

\* update(), lines 174-181.
RevealFrame(he, k) ==
    LET a == RevealAlpha(k, he.reveal_duration)
    IN  [p \in DOMAIN he.original |->
            CrossFadePixel(he.original[p], he.hidden_surface[p], a, p)]

\* Mutant of HoldFrame: the hold phase keeps the frame it finds.
HoldFrameKept(he) == he.current_surface

\* update(), line 183.
HoldFrame(he) == he.hidden_surface

\* HiddenEffect.update().  Times are compared on the tick count k (time =
\* k / FPS).  The float sum of 120 additions of 1/FPS is just below 2.0, so
\* the code still takes the reveal branch on tick 120, with alpha 255: the
\* same frame as HoldFrame.
HiddenEffectUpdate(he) ==
    IF he.is_complete \/ he.hidden_surface = None THEN he
    ELSE LET k == he.time + 1
         IN  IF k >= he.animation_duration * FPS
             THEN [he EXCEPT !.time = k, !.is_complete = TRUE,
                             !.current_surface = he.hidden_surface]
             ELSE IF k < he.reveal_duration * FPS
             THEN [he EXCEPT !.time = k, !.current_surface = RevealFrame(he, k)]
             ELSE [he EXCEPT !.time = k, !.current_surface = HoldFrame(he)]

\* HiddenEffect.restart()
HiddenEffectRestart(he) ==
    [he EXCEPT !.time = 0, !.is_complete = FALSE,
               !.current_surface = he.original]

(***************************************************************************)
(* SpecHidden: the construction of a HiddenEffect, _apply_inpainting taken *)
(* pass by pass with its locals in `synth`, then update() and restart().   *)
(***************************************************************************)
HidScreenW == 6
HidScreenH == 5

Square(x0, y0, x1, y1) == <<(<<x0, y0>>), (<<x1, y0>>), (<<x1, y1>>), (<<x0, y1>>)>>

\* A 3x3 hole without source.
RegionPlain == Region(Square(0, 0, 2, 2), <<>>, 0, 0, 2, 2, 0, 0, 0, 0)
\* A 3x3 hole cloned from a 3x2 source.
RegionClone ==
    Region(Square(3, 1, 5, 3), Square(0, 3, 2, 4), 3, 1, 2, 2, 0, 3, 2, 1)
\* A triangular hole cloned from a square source.
RegionCloneTriangle ==
    Region(<<(<<1, 0>>), (<<4, 0>>), (<<1, 3>>)>>, Square(3, 2, 5, 4),
           1, 0, 3, 3, 3, 2, 2, 2)
\* A two-point "polygon": masked by its bounding rectangle only.
RegionTwoPoints ==
    Region(<<(<<1, 1>>), (<<2, 2>>)>>, <<>>, 1, 1, 1, 1, 0, 0, 0, 0)
\* A hole whose source polygon is a vertical line (source_w = 0).
RegionCloneFlatSource ==
    Region(Square(3, 0, 5, 1), <<(<<0, 0>>), (<<0, 2>>), (<<0, 4>>)>>,
           3, 0, 2, 1, 0, 0, 0, 4)

RegionLists ==
    { <<RegionPlain>>, <<RegionClone>>, <<RegionCloneTriangle>>,
      <<RegionTwoPoints>>, <<RegionCloneFlatSource>>,
      <<RegionPlain, RegionClone>>, <<RegionClone, RegionTwoPoints>>,
      <<RegionPlain, RegionTwoPoints>>,
      <<RegionCloneTriangle, RegionPlain>> }

SynthLocals(pc, has_cv2, mask, result, mask_inpaint) ==
    [pc |-> pc, has_cv2 |-> has_cv2, mask |-> mask, result |-> result,
     mask_inpaint |-> mask_inpaint]

InitHidden ==
    /\ \E regions \in RegionLists, has_cv2 \in BOOLEAN :
          /\ hidden = HiddenEffectInit(SourceImage(HidScreenW, HidScreenH),
                                       HidScreenW, HidScreenH, regions)
          /\ synth = SynthLocals("import", has_cv2, {}, hidden.original, {})
    /\ tile = None /\ eye = None /\ tool = None /\ tiles = <<>>
    /\ clock = 0 /\ selector = None

\* Lines 55-67: without OpenCV the hidden surface is a copy of the original.
SynthUnavailable ==
    /\ synth.pc = "import" /\ ~synth.has_cv2
    /\ hidden' = [hidden EXCEPT !.hidden_surface =
                                    UnavailableSurface(hidden.original)]
    /\ synth' = [synth EXCEPT !.pc = "done"]
    /\ UNCHANGED <<tile, eye, tool, tiles, clock, selector>>

\* Lines 69-87: result = copy of the image, mask = all regions.
SynthBuildMask ==
    /\ synth.pc = "import" /\ synth.has_cv2
    /\ synth' = [synth EXCEPT !.pc = "regions",
                   !.mask = CompositeMask(hidden.regions, 1,
                                hidden.screen_width, hidden.screen_height)]
    /\ UNCHANGED <<tile, eye, hidden, tool, tiles, clock, selector>>

\* Lines 90-141: clone or flat-fill every region.
SynthProcessRegions ==
    /\ synth.pc = "regions"
    /\ synth' = [synth EXCEPT !.pc = "inpaint",
                   !.result = ProcessRegions(synth.result, hidden.regions, 1,
                                hidden.screen_width, hidden.screen_height)]
    /\ UNCHANGED <<tile, eye, hidden, tool, tiles, clock, selector>>

\* Lines 143-146: inpaint over the dilated mask.
SynthInpaint ==
    /\ synth.pc = "inpaint"
    /\ LET mi == InpaintMask(synth.mask, hidden.screen_width, hidden.screen_height)
       IN  synth' = [synth EXCEPT !.pc = "blend", !.mask_inpaint = mi,
                                  !.result = Inpaint(synth.result, mi)]
    /\ UNCHANGED <<tile, eye, hidden, tool, tiles, clock, selector>>

\* Lines 148-158: smooth, feather-blend, store as hidden_surface.
SynthBlend ==
    /\ synth.pc = "blend"
    /\ hidden' = [hidden EXCEPT !.hidden_surface =
                     FeatherBlend(synth.result, hidden.original, synth.mask)]
    /\ synth' = [synth EXCEPT !.pc = "done"]
    /\ UNCHANGED <<tile, eye, tool, tiles, clock, selector>>

HiddenUpdate ==
    /\ synth.pc = "done"
    /\ hidden' = HiddenEffectUpdate(hidden)
    /\ UNCHANGED <<tile, eye, synth, tool, tiles, clock, selector>>

HiddenRestart ==
    /\ synth.pc = "done"
    /\ hidden' = HiddenEffectRestart(hidden)
    /\ UNCHANGED <<tile, eye, synth, tool, tiles, clock, selector>>

NextHidden ==
    \/ SynthUnavailable \/ SynthBuildMask \/ SynthProcessRegions
    \/ SynthInpaint \/ SynthBlend \/ HiddenUpdate \/ HiddenRestart

SpecHidden == InitHidden /\ [][NextHidden]_vars

(***************************************************************************)
(* 4. DesktopAnimationTool (src/main.py)                                   *)
(*                                                                         *)
(* `tool` holds the object's own fields, its position in run() (pc) and    *)
(* the number of input events the session may still receive; the effects   *)
(* it owns live in `eye`, `hidden` and `tiles`.  `clock` is the last value *)
(* pygame.time.get_ticks() returned, in ms.                                *)
(***************************************************************************)
\* self.complete_time = None
NoTime == -1

\* math.ceil(a / b)
CeilDiv(a, b) == (a + b - 1) \div b

\* hash((col, row)) % 5 as CPython computes it (the hash of a tuple of
\* small ints is not randomised); rows 0..2, columns 0..3.
TupleHashMod5 == << <<0, 4, 1, 3>>, <<0, 4, 3, 3>>, <<2, 3, 2, 2>> >>

\* int(dist / max_dist * scale), from the squares of the two distances.
ScaledDist(dist2, max2, scale) == ISqrt((scale * scale * dist2) \div max2)

\* Lines 151-170: the start delay of the tile in column col, row row.
TileDelay(t, col, row) ==
    LET center_x == t.screen_width \div 2
        center_y == t.screen_height \div 2
        tile_center_x == col * t.square_size + t.square_size \div 2
        tile_center_y == row * t.square_size + t.square_size \div 2
        dist2 == (tile_center_x - center_x) * (tile_center_x - center_x)
                 + (tile_center_y - center_y) * (tile_center_y - center_y)
        max2 == center_x * center_x + center_y * center_y
        delay == IF t.effect_mode = "ripple"
                 THEN ScaledDist(dist2, max2, 10) * 8
                      + TupleHashMod5[row + 1][col + 1]
                 ELSE ScaledDist(dist2, max2, 60)
    IN  IF t.reverse THEN Max(0, 60 - delay) ELSE delay

\* The delay _create_tiles gives the tile at (col, row) without and with
\* reverse (lines 160-170).
ForwardDelay(t, col, row) == TileDelay([t EXCEPT !.reverse = FALSE], col, row)
ReverseDelay(t, col, row) == TileDelay([t EXCEPT !.reverse = TRUE], col, row)

\* Lines 154-157: the squared distance of a tile's centre to the screen
\* centre.
CentreDist2(t, col, row) ==
    LET dx == col * t.square_size + t.square_size \div 2 - t.screen_width \div 2
        dy == row * t.square_size + t.square_size \div 2 - t.screen_height \div 2
    IN  dx * dx + dy * dy

\* Mutant of GridCols: a last column narrower than a tile is left out.
GridColsRoundedDown(t) == t.screen_width \div t.square_size

\* Lines 138-139: cols and rows = math.ceil(screen / square_size), and
\* rows * cols of the grid _create_tiles lays out.
GridCols(t) == CeilDiv(t.screen_width, t.square_size)
GridRows(t) == CeilDiv(t.screen_height, t.square_size)
GridCount(t) == GridRows(t) * GridCols(t)

\* _create_tiles: row by row, one FlipTile per cell, draws[i] being the
\* random draws of the i-th construction.
CreateTiles(t, draws) ==
    [i \in 1..GridCount(t) |->
        LET col == (i - 1) % GridCols(t)
            row == (i - 1) \div GridCols(t)
        IN  FlipTileNew(col * t.square_size, row * t.square_size,
                        t.square_size, TileDelay(t, col, row),
                        IF t.smooth_edges THEN 6 ELSE 0, t.reverse, draws[i])]

\* update() and draw() dispatch to the eye effect / the hidden effect /
\* the tiles (lines 211, 217, 223).
EyesActive(t, e) == t.effect_mode = "eyes" /\ e # None
HiddenActive(t, h) == t.effect_mode = "hidden" /\ h # None
TilingActive(t, e, h) == ~EyesActive(t, e) /\ ~HiddenActive(t, h)

\* _restart_animation on the session s = [tool, eye, hidden, recreate];
\* recreate records that self.tiles was replaced by a fresh grid.
RestartAnimation(s) ==
    LET cleared == [s.tool EXCEPT !.all_complete = FALSE,
                                  !.complete_time = NoTime]
    IN  IF EyesActive(s.tool, s.eye)
        THEN [s EXCEPT !.tool = cleared, !.eye = EyeEffectRestart(s.eye)]
        ELSE IF HiddenActive(s.tool, s.hidden)
        THEN [s EXCEPT !.tool = cleared,
                       !.hidden = HiddenEffectRestart(s.hidden)]
        ELSE [s EXCEPT !.tool = cleared, !.recreate = TRUE]

\* The events handle_events reacts to.
Events == {"QUIT", "K_ESCAPE", "K_SPACE", "K_UP", "K_DOWN"}

\* The body of the for loop of handle_events, for one event.
HandleEvent(s, ev) ==
    IF ev \in {"QUIT", "K_ESCAPE"}
    THEN [s EXCEPT !.tool.running = FALSE]
    ELSE IF ev = "K_SPACE" THEN RestartAnimation(s)
    ELSE IF ev = "K_UP"
    THEN RestartAnimation([s EXCEPT !.tool.square_size =
                              Min(MAX_SQUARE_SIZE, s.tool.square_size + 10)])
    ELSE IF ev = "K_DOWN"
    THEN RestartAnimation([s EXCEPT !.tool.square_size =
                              Max(MIN_SQUARE_SIZE, s.tool.square_size - 10)])
    ELSE s

RECURSIVE HandleEventList(_, _)
\* for event in pygame.event.get(): ...
HandleEventList(s, evs) ==
    IF evs = <<>> THEN s
    ELSE HandleEventList(HandleEvent(s, Head(evs)), Tail(evs))

\* Line 224: all(tile.is_complete for tile in self.tiles)
AllDone(ts) == \A i \in 1..Len(ts) : ts[i].is_complete

\* Mutant of AllLinesDone: the cut-line fade is not waited for.
AllLinesDoneIgnored(ts, reverse) == TRUE

\* Lines 225-228
AllLinesDone(ts, reverse) == \A i \in 1..Len(ts) : LinesDone(ts[i], reverse)

\* Line 238: the auto-restart is looked at (0 and None are both falsy).
AutoRestartArmed(t) ==
    t.all_complete /\ t.restart_interval > 0
    /\ t.complete_time # NoTime /\ t.complete_time # 0

\* Mutant of IntervalElapsed: the difference is not converted to seconds.
IntervalElapsedInMs(reading, complete_time, restart_interval) ==
    reading - complete_time >= restart_interval

\* Lines 239-240: (get_ticks() - complete_time) / 1000.0 >= restart_interval
IntervalElapsed(reading, complete_time, restart_interval) ==
    reading - complete_time >= restart_interval * 1000


(***************************************************************************)
(* Spec: a session of the tool, from construction through run().           *)
(***************************************************************************)
MaxCols == 2
MaxEvents == 1
MaxClockSteps == 3
ClockStepMs == 500

\* The tiling sessions run on a screen of MaxCols columns and one row of
\* the smallest tiles; the eye and hidden sessions on the images of
\* sections 2 and 3.
ToolScreenW == MaxCols * MIN_SQUARE_SIZE
ToolScreenH == MIN_SQUARE_SIZE

\* A square screen one pixel larger than the smallest tile: the grid is
\* 2 x 2 and three of its tiles reach past the screen.
OddScreen == MIN_SQUARE_SIZE + 1

\* The values get_ticks() may return, and those it may return after `last`
\* (reads = FALSE: the call is not made).
ClockReadings == {i * ClockStepMs : i \in 0..MaxClockSteps}
ReadingsFrom(last, reads) ==
    IF reads THEN {r \in ClockReadings : r >= last} ELSE {last}

\* The draws a tile construction makes within a session: a single flip, or
\* two flips from a scrambled start, both at the highest speed.
ToolDraws ==
    {d \in TileDraws :
        /\ d.flip_speed = FLIP_SPEED + SpeedJitter
        /\ \/ /\ d.target_flips = 1 /\ d.flip_direction = "horizontal"
              /\ ~d.pre_h /\ ~d.pre_v
           \/ /\ d.target_flips = 2 /\ d.flip_direction = "vertical"
              /\ d.pre_h /\ d.pre_v}

\* The draws of the n constructions of one _create_tiles: all tiles alike,
\* or every second tile different from its neighbour.
DrawLists(n) ==
    {[i \in 1..n |-> d] : d \in ToolDraws}
    \cup {[i \in 1..n |-> CHOOSE d \in ToolDraws :
                             (d.target_flips = 1) <=> (i % 2 = 1)]}

\* Arguments of the constructor of DesktopAnimationTool.
Args(effect_mode, reverse, smooth_edges, restart_interval, W, H, polygon_data) ==
    [effect_mode |-> effect_mode, reverse |-> reverse,
     smooth_edges |-> smooth_edges, restart_interval |-> restart_interval,
     square_size |-> MIN_SQUARE_SIZE, screen_width |-> W, screen_height |-> H,
     polygon_data |-> polygon_data]

\* The sessions tried.  polygon_data is the list of eye boxes (eyes) or of
\* regions (hidden); an empty list of eye boxes stands for a detection that
\* found no eye.  --restart is 0 (off) or one second.
ToolArgs ==
    { Args("flip", FALSE, TRUE, 0, ToolScreenW, ToolScreenH, <<>>),
      Args("flip", TRUE, FALSE, 1, ToolScreenW, ToolScreenH, <<>>),
      Args("ripple", FALSE, TRUE, 1, ToolScreenW, ToolScreenH, <<>>),
      Args("ripple", TRUE, TRUE, 0, ToolScreenW, ToolScreenH, <<>>),
      Args("ripple", TRUE, TRUE, 0, OddScreen, OddScreen, <<>>),
      Args("clone", FALSE, TRUE, 1, ToolScreenW, ToolScreenH, <<>>),
      Args("eyes", FALSE, TRUE, 0, EyeScreenW, EyeScreenH, <<Box(1, 0, 6, 6)>>),
      Args("eyes", FALSE, TRUE, 1, EyeScreenW, EyeScreenH, <<>>),
      Args("hidden", FALSE, TRUE, 1, HidScreenW, HidScreenH, <<RegionClone>>),
      Args("hidden", TRUE, TRUE, 0, HidScreenW, HidScreenH, <<>>) }

\* Lines 108-117: the eye effect, dropped when it has no eye.
InitEyeEffect(a) ==
    IF a.effect_mode = "eyes"
    THEN LET e == EyeEffectNew(EyeImage, a.screen_width, a.screen_height,
                               a.polygon_data)
         IN  IF Len(e.eyes) = 0 THEN None ELSE e
    ELSE None

\* Lines 119-124: the hidden effect, built only from non-empty polygon data.
InitHiddenEffect(a) ==
    IF a.effect_mode = "hidden" /\ a.polygon_data # <<>>
    THEN HiddenEffectNew(SourceImage(a.screen_width, a.screen_height),
                         a.screen_width, a.screen_height, a.polygon_data, TRUE)
    ELSE None

\* Mutant of InitEffectMode: the requested mode is kept without an effect.
InitEffectModeKept(a) == a.effect_mode

\* Lines 114-116 and 125-127: the fall-back to the flip effect.
InitEffectMode(a) ==
    IF \/ a.effect_mode = "eyes" /\ InitEyeEffect(a) = None
       \/ a.effect_mode = "hidden" /\ InitHiddenEffect(a) = None
    THEN "flip" ELSE a.effect_mode

\* DesktopAnimationTool.__init__ up to the call of _init_effects (lines
\* 58-98), with the values lines 102-104 give to running, all_complete and
\* complete_time.
ToolNew(a) ==
    [effect_mode |-> a.effect_mode, square_size |-> a.square_size,
     restart_interval |-> a.restart_interval, reverse |-> a.reverse,
     smooth_edges |-> a.smooth_edges, polygon_data |-> a.polygon_data,
     screen_width |-> a.screen_width, screen_height |-> a.screen_height,
     running |-> TRUE, all_complete |-> FALSE, complete_time |-> NoTime,
     pc |-> "init", events_left |-> MaxEvents]

\* Line 188: self.tiles after a restart that reaches the else branch of
\* _restart_animation, whatever the effect mode.
RecreatedTiles(t) == {CreateTiles(t, draws) : draws \in DrawLists(GridCount(t))}

\* Lines 98 and 129-130: self.tiles after _init_effects.
FreshTiles(t) ==
    IF t.effect_mode \in {"flip", "ripple"} THEN RecreatedTiles(t) ELSE {<<>>}

Init ==
    /\ \E a \in ToolArgs : tool = ToolNew(a)
    /\ eye = None /\ hidden = None /\ tiles = <<>>
    /\ tile = None /\ synth = None /\ clock = 0 /\ selector = None

\* __init__: self._init_effects(show_stats)
ToolInitEffects ==
    /\ tool.pc = "init"
    /\ eye' = InitEyeEffect(tool)
    /\ hidden' = InitHiddenEffect(tool)
    /\ tool' = [tool EXCEPT !.effect_mode = InitEffectMode(tool),
                            !.pc = "events"]
    /\ tiles' \in FreshTiles(tool')
    /\ UNCHANGED <<tile, synth, clock, selector>>

\* The event lists one pygame.event.get() may return.
EventLists(n) == UNION {[1..k -> Events] : k \in 0..n}

\* run(): self.handle_events()
ToolHandleEvents ==
    /\ tool.pc = "events"
    /\ \E evs \in EventLists(tool.events_left) :
       \E s \in {HandleEventList([tool |-> tool, eye |-> eye,
                                  hidden |-> hidden, recreate |-> FALSE], evs)} :
          /\ tool' = [s.tool EXCEPT !.pc = "update",
                                    !.events_left = @ - Len(evs)]
          /\ eye' = s.eye
          /\ hidden' = s.hidden
          /\ IF s.recreate THEN tiles' \in RecreatedTiles(s.tool)
             ELSE tiles' = tiles
    /\ UNCHANGED <<tile, synth, clock, selector>>

\* Lines 211-235 without the clock: the effects after their update() and
\* whether the session is found finished.
UpdateEffects(t, e, h, ts) ==
    IF EyesActive(t, e)
    THEN LET eyeU == EyeEffectUpdate(e)
         IN  [eye |-> eyeU, hidden |-> h, tiles |-> ts,
              done |-> eyeU.is_complete]
    ELSE IF HiddenActive(t, h)
    THEN LET hidU == HiddenEffectUpdate(h)
         IN  [eye |-> e, hidden |-> hidU, tiles |-> ts,
              done |-> hidU.is_complete]
    ELSE [eye |-> e, hidden |-> h,
          tiles |-> [i \in 1..Len(ts) |-> FlipTileUpdate(ts[i])],
          done |-> AllDone(ts) /\ AllLinesDone(ts, t.reverse)]

\* run(): self.update().  r1 is the clock reading of the completion (lines
\* 215, 221, 235), r2 the one of the auto-restart test (line 239).
ToolUpdate ==
    /\ tool.pc = "update"
    /\ \E u \in {UpdateEffects(tool, eye, hidden, tiles)} :
       \E r1 \in ReadingsFrom(clock, u.done /\ ~tool.all_complete) :
          LET t1 == IF u.done /\ ~tool.all_complete
                    THEN [tool EXCEPT !.all_complete = TRUE,
                                      !.complete_time = r1]
                    ELSE tool
          IN  \E r2 \in ReadingsFrom(r1, AutoRestartArmed(t1)) :
                 LET s0 == [tool |-> t1, eye |-> u.eye, hidden |-> u.hidden,
                            recreate |-> FALSE]
                     s == IF /\ AutoRestartArmed(t1)
                             /\ IntervalElapsed(r2, t1.complete_time,
                                                t1.restart_interval)
                          THEN RestartAnimation(s0) ELSE s0
                 IN  /\ tool' = [s.tool EXCEPT !.pc = "draw"]
                     /\ eye' = s.eye
                     /\ hidden' = s.hidden
                     /\ IF s.recreate THEN tiles' \in RecreatedTiles(s.tool)
                        ELSE tiles' = u.tiles
                     /\ clock' = r2
    /\ UNCHANGED <<tile, synth, selector>>

\* Mutant of ToolDraw: the loop goes on whatever the running flag says.
ToolDrawLoopsOn ==
    /\ tool.pc = "draw"
    /\ tool' = [tool EXCEPT !.pc = "events"]
    /\ UNCHANGED <<tile, eye, hidden, synth, tiles, clock, selector>>

\* run(): self.draw(), self.clock.tick(FPS) and the test of the while loop.
\* draw() changes no field.
ToolDraw ==
    /\ tool.pc = "draw"
    /\ tool' = [tool EXCEPT !.pc = IF tool.running THEN "events" ELSE "quit"]
    /\ UNCHANGED <<tile, eye, hidden, synth, tiles, clock, selector>>

Next == ToolInitEffects \/ ToolHandleEvents \/ ToolUpdate \/ ToolDraw

Spec == Init /\ [][Next]_vars


(***************************************************************************)
(* Claims about FlipTile, checked under SpecTile.                          *)
(***************************************************************************)

\* C4: for every starting pre-mirror combination, flip direction and
\* target_flips, the last element of the state sequence as built before the
\* optional reversal is the untouched original tile bitmap: flip_surfaces[-1]
\* when reverse is false, flip_surfaces[0] when reverse is true; the same for
\* the soft-edge sequence.
C4_LastBuiltStateIsOriginal ==
    LET n == Len(tile.flip_surfaces)
        m == Len(tile.flip_surfaces_soft)
    IN  IF tile.reverse
        THEN /\ tile.flip_surfaces[1] = tile.original_surface
             /\ tile.flip_surfaces_soft[1] = tile.original_soft
        ELSE /\ tile.flip_surfaces[n] = tile.original_surface
             /\ tile.flip_surfaces_soft[m] = tile.original_soft

\* C4 witness: a reverse tile with feathered edges, three flips, whose
\* scrambled start made the flips end on a mirrored bitmap, so that the
\* original stands at the front only because it was forced there.
C4_Witness ==
    /\ tile.reverse /\ tile.edge_softness > 0 /\ tile.target_flips = 3
    /\ FlipOnce(tile.flip_surfaces[2], tile.flip_direction) # tile.original_surface
    /\ tile.flip_surfaces_soft[1] # tile.flip_surfaces[1]
    /\ tile.flip_angle > 0

\* C5: across any sequence of update() calls flip_angle never decreases and
\* stays within [0, total_rotation], where total_rotation = 180 *
\* target_flips and target_flips in 1..4 never changes.
C5_AngleMonotoneBounded ==
    [][/\ tile.flip_angle >= 0 /\ tile.flip_angle <= tile.total_rotation
       /\ tile.target_flips \in 1..4
       /\ tile.total_rotation = 180 * tile.target_flips
       /\ tile'.flip_angle >= tile.flip_angle
       /\ tile'.flip_angle <= tile'.total_rotation
       /\ tile'.target_flips = tile.target_flips
       /\ tile'.total_rotation = tile.total_rotation]_vars

\* C5 witness: a tile whose speed does not divide its total rotation has
\* completed, so the last addition overshot and was clamped.
C5_Witness ==
    /\ tile.is_complete /\ tile.flip_angle = tile.total_rotation
    /\ tile.target_flips = 4 /\ tile.total_rotation % tile.flip_speed # 0

\* C6: once is_complete holds, every later update() leaves every field of
\* the tile unchanged except line_alpha.
C6_CompleteIsTerminal ==
    [][tile.is_complete =>
         tile' = [tile EXCEPT !.line_alpha = tile'.line_alpha]]_vars

\* C6 witness: a completed tile in the middle of its cut-line fade.
C6_Witness ==
    /\ tile.is_complete /\ tile.line_alpha > 0 /\ tile.line_alpha < 255
    /\ tile.current_delay = 0 /\ tile.delay > 0

(***************************************************************************)
(* Claims about EyeEffect, checked under SpecEye.                          *)
(***************************************************************************)

\* C3: on every tick of update() during the animation both components of
\* the gaze offset passed to _shift_eye_pixels, and the integer pixel shift
\* derived from them, lie within [-max_shift, max_shift].
C3_GazeWithinMaxShift ==
    (Len(eye.eyes) > 0 /\ eye.time >= 1 /\ ~eye.is_complete) =>
        /\ Abs(LookXE4(eye.time)) <= eye.max_shift * E4
        /\ Abs(LookYE4(eye.time)) <= eye.max_shift * E4
        /\ Abs(IntTrunc(LookXE4(eye.time))) <= eye.max_shift
        /\ Abs(IntTrunc(LookYE4(eye.time))) <= eye.max_shift

\* C9: whenever is_complete holds, current_surface is the pristine original
\* and a further update() leaves time, is_complete and current_surface as
\* they are; is_complete holds exactly from the first update whose
\* accumulated time reaches animation_duration.
C9_CompleteShowsOriginal ==
    /\ eye.is_complete <=> eye.time >= ANIMATION_DURATION * FPS
    /\ eye.time <= ANIMATION_DURATION * FPS
    /\ eye.is_complete =>
         /\ eye.current_surface = eye.original
         /\ EyeEffectUpdate(eye).time = eye.time
         /\ EyeEffectUpdate(eye).is_complete
         /\ EyeEffectUpdate(eye).current_surface = eye.current_surface

\* C9 witness: a completed effect whose last frame before completion
\* differed from the original.
C9_Witness ==
    /\ eye.is_complete /\ Len(eye.eyes) > 0
    /\ eye.time = ANIMATION_DURATION * FPS
    /\ ShiftAllEyes(eye.original, eye.eyes, 1,
                    LookXE4(eye.time - 1), LookYE4(eye.time - 1)) # eye.original

(***************************************************************************)
(* Claims about HiddenEffect, checked under SpecHidden.                    *)
(***************************************************************************)

\* The hidden composite has been synthesized (OpenCV present).
Synthesized == synth.pc = "done" /\ synth.has_cv2

\* C1: for every region with a valid source polygon, every target pixel for
\* which both the target region mask and the resized source mask are set
\* has, in the finished hidden composite, a value that originates from the
\* resized source crop and not from the inpaint pass.
C1_CloneSurvivesInpaint ==
    Synthesized =>
        \A i \in 1..Len(hidden.regions) :
            LET region == hidden.regions[i]
            IN  (Len(region.polygon) >= 3 /\ HasSource(region)) =>
                    \A p \in ClonedPixels(region, hidden.screen_width,
                                          hidden.screen_height) :
                        hidden.hidden_surface[p].tag = "clone"

\* C2: the mask handed to the inpaint step contains the composite mask, so
\* for every region without a source polygon every hole pixel is written by
\* the inpaint pass, whatever the flat-fill pre-pass did or skipped.
C2_InpaintCoversMask ==
    (synth.has_cv2 /\ synth.pc \in {"blend", "done"}) =>
        /\ synth.mask \subseteq synth.mask_inpaint
        /\ \A i \in 1..Len(hidden.regions) :
              ~HasSource(hidden.regions[i]) =>
                  \A p \in RegionMask(hidden.regions[i], hidden.screen_width,
                                      hidden.screen_height) :
                      /\ p \in synth.mask
                      /\ synth.result[p] = Px("inpaint", p[1], p[2], 0)
                      /\ synth.pc = "done" =>
                            hidden.hidden_surface[p].tag = "inpaint"

\* C2 witness: a finished composite with two regions without source, one
\* that the pre-pass flat-filled and one that it skipped.
C2_Witness ==
    /\ Synthesized
    /\ \E i, j \in 1..Len(hidden.regions) :
          /\ ~HasSource(hidden.regions[i]) /\ ~HasSource(hidden.regions[j])
          /\ Len(hidden.regions[i].polygon) < 3
          /\ Len(hidden.regions[j].polygon) >= 3
          /\ FilledPixels(hidden.regions[j], hidden.screen_width,
                          hidden.screen_height) # {}
          /\ RegionMask(hidden.regions[i], hidden.screen_width,
                        hidden.screen_height) # {}

\* C10: before the first update the frame is the original; while
\* reveal_duration <= time < reveal_duration + hold_duration the frame is
\* the hidden composite and is_complete is false; from the first update
\* with time >= reveal_duration + hold_duration is_complete is true and the
\* frame is the hidden composite, and stays so under further updates.
C10_RevealTimeline ==
    /\ hidden.time = 0 => hidden.current_surface = hidden.original
    /\ hidden.hidden_surface # None =>
         /\ hidden.time <= (REVEAL_DURATION + HOLD_DURATION) * FPS
         /\ hidden.is_complete <=>
                hidden.time >= (REVEAL_DURATION + HOLD_DURATION) * FPS
         /\ hidden.time >= REVEAL_DURATION * FPS =>
                hidden.current_surface = hidden.hidden_surface
         /\ hidden.is_complete => HiddenEffectUpdate(hidden) = hidden

\* C10 witness: a completed reveal of a composite that differs from the
\* original.
C10_Witness ==
    /\ hidden.is_complete
    /\ hidden.time = (REVEAL_DURATION + HOLD_DURATION) * FPS
    /\ hidden.hidden_surface # hidden.original
    /\ hidden.current_surface = hidden.hidden_surface

(***************************************************************************)
(* Claims about DesktopAnimationTool, checked under Spec.                  *)
(***************************************************************************)
\* C7: in tiling mode all_complete is set only when every tile has
\* is_complete and a finished cut-line fade (line_alpha <= 0 forward,
\* >= 255 in reverse); it is never true while a tile still flips or fades.
C7_CompleteMeansAllTilesDone ==
    (tool.all_complete /\ TilingActive(tool, eye, hidden)) =>
        \A i \in 1..Len(tiles) :
            tiles[i].is_complete /\ LinesDone(tiles[i], tool.reverse)

\* A reverse ripple session with several tiles that has reached Complete.
C7_Witness ==
    /\ tool.effect_mode = "ripple" /\ tool.reverse /\ tool.all_complete
    /\ Len(tiles) >= 2
    /\ \E i \in 1..Len(tiles) : tiles[i].delay > 0

\* C8: an update() tick takes a Complete session back to Running only when
\* restart_interval > 0 and at least restart_interval seconds lie between
\* complete_time and the clock reading of that tick; with
\* restart_interval = 0 no tick leaves Complete.
C8_TickRestartsOnlyAfterInterval ==
    [][(tool.pc = "update" /\ tool.all_complete /\ ~tool'.all_complete) =>
          /\ tool.restart_interval > 0
          /\ clock' - tool.complete_time >= tool.restart_interval * 1000]_vars

\* A session that received no input event, was Complete and is Running
\* again: its tiles were rebuilt by the auto-restart.
C8_Witness ==
    /\ tool.events_left = MaxEvents /\ tool.restart_interval > 0
    /\ ~tool.all_complete /\ tool.complete_time = NoTime
    /\ clock >= ClockStepMs + tool.restart_interval * 1000
    /\ tool.pc = "draw" /\ Len(tiles) >= 2
    /\ \A i \in 1..Len(tiles) : tiles[i].flip_angle = 0

\* The session the orchestrator's _restart_animation works on.
Session == [tool |-> tool, eye |-> eye, hidden |-> hidden, recreate |-> FALSE]

\* C11: restart() twice in a row leaves an EyeEffect, a HiddenEffect and
\* (in eyes and hidden mode) the session of the orchestrator in the state
\* one restart() leaves, and that state has time = 0 and is_complete false.
C11_RestartIdempotent ==
    /\ eye # None =>
          /\ EyeEffectRestart(EyeEffectRestart(eye)) = EyeEffectRestart(eye)
          /\ EyeEffectRestart(eye).time = 0
          /\ ~EyeEffectRestart(eye).is_complete
    /\ hidden # None =>
          /\ HiddenEffectRestart(HiddenEffectRestart(hidden))
                = HiddenEffectRestart(hidden)
          /\ HiddenEffectRestart(hidden).time = 0
          /\ ~HiddenEffectRestart(hidden).is_complete
    /\ ~TilingActive(tool, eye, hidden) =>
          /\ RestartAnimation(RestartAnimation(Session))
                = RestartAnimation(Session)
          /\ ~RestartAnimation(Session).tool.all_complete
          /\ RestartAnimation(Session).tool.complete_time = NoTime
          /\ EyesActive(tool, eye) =>
                /\ RestartAnimation(Session).eye.time = 0
                /\ ~RestartAnimation(Session).eye.is_complete
          /\ HiddenActive(tool, hidden) =>
                /\ RestartAnimation(Session).hidden.time = 0
                /\ ~RestartAnimation(Session).hidden.is_complete

\* A session in eyes mode that is Complete, so that a restart changes
\* time, is_complete, all_complete and complete_time.
C11_Witness ==
    /\ EyesActive(tool, eye) /\ eye.is_complete /\ eye.time > 0
    /\ tool.all_complete /\ tool.complete_time # NoTime

\* C12: an effect at time 0 that is not complete (fresh, or just restarted
\* from any state) presents the pristine original: draw() blits
\* current_surface, which then equals the original image.
C12_RestartShowsOriginal ==
    /\ (eye # None /\ eye.time = 0 /\ ~eye.is_complete) =>
          eye.current_surface = eye.original
    /\ (hidden # None /\ hidden.time = 0 /\ ~hidden.is_complete) =>
          hidden.current_surface = hidden.original

\* The pixels of `result` that the region loop wrote for region i in the
\* given mode ("clone" or "fill").
WrittenFor(result, i, mode) ==
    {p \in DOMAIN result : result[p].tag = mode /\ result[p].r = i}

\* C13: after the loop over the regions every region has been processed in
\* exactly one mode, decided by its source polygon alone: with a source
\* polygon of at least 3 points the clone copy was made (and no mean-colour
\* fill), otherwise the mean-colour fill was made (and no clone copy).
C13_OneModePerRegion ==
    synth.pc = "inpaint" =>
        \A i \in 1..Len(hidden.regions) :
            IF HasSource(hidden.regions[i])
            THEN /\ WrittenFor(synth.result, i, "clone") # {}
                 /\ WrittenFor(synth.result, i, "fill") = {}
            ELSE /\ WrittenFor(synth.result, i, "fill") # {}
                 /\ WrittenFor(synth.result, i, "clone") = {}

\* C14: the composite mask is exactly the union, over all regions, of the
\* filled polygon when the polygon has at least 3 points and of the
\* bounding rectangle with corners (x, y) and (x + w, y + h) otherwise; a
\* polygon of fewer than 3 points contributes its rectangle, which holds
\* all its points, and not a rasterization of its points.
C14_MaskIsUnionOfRegions ==
    (synth # None /\ synth.has_cv2 /\ synth.pc # "import") =>
        LET W == hidden.screen_width
            H == hidden.screen_height
            covers(region, p) ==
                IF Len(region.polygon) >= 3
                THEN p \in FillPoly(region.polygon, W, H)
                ELSE /\ region.x <= p[1] /\ p[1] <= region.x + region.w
                     /\ region.y <= p[2] /\ p[2] <= region.y + region.h
        IN  /\ synth.mask = {p \in Pixels(W, H) :
                    \E i \in 1..Len(hidden.regions) :
                        covers(hidden.regions[i], p)}
            /\ \A i \in 1..Len(hidden.regions) :
                  Len(hidden.regions[i].polygon) < 3 =>
                      \A j \in 1..Len(hidden.regions[i].polygon) :
                          hidden.regions[i].polygon[j] \in Pixels(W, H) =>
                              hidden.regions[i].polygon[j] \in synth.mask

\* A finished composite of a polygon region and a two-point region whose
\* rectangle holds pixels that lie on no segment between its points.
C14_Witness ==
    /\ Synthesized
    /\ \E i, j \in 1..Len(hidden.regions) :
          /\ Len(hidden.regions[i].polygon) >= 3
          /\ Len(hidden.regions[j].polygon) = 2
          /\ \E p \in synth.mask :
                /\ p \notin FillPoly(hidden.regions[i].polygon,
                                     hidden.screen_width, hidden.screen_height)
                /\ p \notin FillPoly(hidden.regions[j].polygon,
                                     hidden.screen_width, hidden.screen_height)

\* The session asks for the eyes effect and its EyeEffect has no eye, or
\* for the hidden effect without polygon data.
FallsBack(t) ==
    \/ /\ t.effect_mode = "eyes"
       /\ Len(EyeEffectNew(EyeImage, t.screen_width, t.screen_height,
                           t.polygon_data).eyes) = 0
    \/ t.effect_mode = "hidden" /\ t.polygon_data = <<>>

\* C15: _init_effects of a session that asks for the eyes effect and finds
\* no eye, or for the hidden effect without polygon data, ends in mode
\* 'flip' with a tile grid and without eye and hidden effect; afterwards a
\* session in mode 'flip' never has an eye or hidden effect, and update()
\* and draw() go to its tiles.
C15_FallsBackToFlip ==
    /\ [][(tool.pc = "init" /\ FallsBack(tool)) =>
             /\ tool'.pc = "events" /\ tool'.effect_mode = "flip"
             /\ eye' = None /\ hidden' = None /\ Len(tiles') > 0]_vars
    /\ [](tool.pc # "init" =>
             /\ tool.effect_mode = "eyes" => eye # None /\ Len(eye.eyes) > 0
             /\ tool.effect_mode = "hidden" => hidden # None
             /\ tool.effect_mode = "flip" =>
                   /\ eye = None /\ hidden = None /\ Len(tiles) > 0
                   /\ TilingActive(tool, eye, hidden))

\* A session on the eye image that fell back to flipping tiles and has
\* run its tile to the end.
C15_Witness ==
    /\ tool.screen_width = EyeScreenW /\ tool.screen_height = EyeScreenH
    /\ tool.effect_mode = "flip" /\ eye = None
    /\ Len(tiles) > 0 /\ tiles[1].is_complete /\ tool.all_complete

\* C16: when OpenCV can not be imported the construction ends with
\* hidden_surface equal to the original; update() then advances the time
\* tick by tick up to completion, and every frame, during the reveal, the
\* hold and after completion, equals the original image.
C16_DegradesToOriginal ==
    (synth # None /\ ~synth.has_cv2 /\ synth.pc = "done") =>
        /\ hidden.hidden_surface = hidden.original
        /\ hidden.current_surface = hidden.original
        /\ hidden.is_complete <=>
              hidden.time >= (REVEAL_DURATION + HOLD_DURATION) * FPS
        /\ ~hidden.is_complete =>
              /\ HiddenEffectUpdate(hidden).time = hidden.time + 1
              /\ HiddenEffectUpdate(hidden).current_surface = hidden.original

\* A reveal without OpenCV that has run to completion.
C16_Witness ==
    /\ synth # None /\ ~synth.has_cv2 /\ synth.pc = "done"
    /\ hidden.is_complete
    /\ hidden.time = (REVEAL_DURATION + HOLD_DURATION) * FPS
    /\ hidden.regions # <<>>

\* The gaze shift update() hands to _shift_eye_pixels at tick k.
GazeShift(k) == <<IntTrunc(LookXE4(k)), IntTrunc(LookYE4(k))>>

\* C17: for every eye box, boxes extending past a screen edge included, and
\* every gaze offset, the padded rectangle has non-negative size and lies
\* inside the screen, the sampled crop lies inside the padded buffer and
\* every destination pixel of the pupil ellipse lies inside the padded
\* buffer.
C17_ShiftStaysInsideBuffer ==
    eye # None =>
        \A i \in 1..Len(eye.eyes) :
            LET e == eye.eyes[i]
                pw == e.padded_rect[3]
                ph == e.padded_rect[4]
                g == PupilRect(e, GazeShift(eye.time)[1], GazeShift(eye.time)[2])
            IN  /\ pw >= 0 /\ ph >= 0
                /\ e.padded_rect[1] >= 0 /\ e.padded_rect[2] >= 0
                /\ e.padded_rect[1] + pw <= eye.screen_width
                /\ e.padded_rect[2] + ph <= eye.screen_height
                /\ (eye.time > 0 /\ ~eye.is_complete) =>
                     /\ g.src_x >= 0 /\ g.src_y >= 0
                     /\ g.src_x + g.pupil_w <= pw
                     /\ g.src_y + g.pupil_h <= ph
                     /\ \A x \in 0..(g.pupil_w - 1), y \in 0..(g.pupil_h - 1) :
                            InsideEllipse(x, y, g.pupil_w, g.pupil_h) =>
                                <<g.pupil_x + x, g.pupil_y + y>>
                                    \in DOMAIN e.original_pixels

\* The number of active effects of a session: eye effect present, hidden
\* effect present, tile list not empty.
ActiveEffects ==
    Cardinality({k \in {"eye", "hidden", "tiles"} :
                    \/ k = "eye" /\ eye # None
                    \/ k = "hidden" /\ hidden # None
                    \/ k = "tiles" /\ Len(tiles) > 0})

\* C18: for every effect mode of AVAILABLE_EFFECTS, after construction and
\* after every update, restart and key event exactly one of eye effect,
\* hidden effect and non-empty tile list is present, and update() and
\* draw() dispatch to that one.
C18_ExactlyOneEffectActive ==
    (tool # None /\ tool.pc # "init") =>
        /\ ActiveEffects = 1
        /\ EyesActive(tool, eye) <=> eye # None
        /\ HiddenActive(tool, hidden) <=> hidden # None
        /\ TilingActive(tool, eye, hidden) <=> Len(tiles) > 0

\* C19: update() (with its calls of _shift_eye_pixels) and restart() leave
\* the original image and every eye record, its original_pixels and
\* padded_rect included, unchanged; of the effect's fields only
\* current_surface, time and is_complete may differ afterwards.
C19_BuffersNeverMutated ==
    [][eye # None =>
          /\ eye'.original = eye.original
          /\ \A i \in 1..Len(eye.eyes) :
                /\ eye'.eyes[i].original_pixels = eye.eyes[i].original_pixels
                /\ eye'.eyes[i].padded_rect = eye.eyes[i].padded_rect
          /\ [eye' EXCEPT !.current_surface = eye.current_surface,
                          !.time = eye.time,
                          !.is_complete = eye.is_complete] = eye]_vars

\* An update that has drawn shifted eyes into the frame, with the buffers
\* still the captures of the source image.
C19_Witness ==
    /\ eye # None /\ eye.time > 0 /\ Len(eye.eyes) = 2
    /\ eye.current_surface # eye.original
    /\ eye.original = EyeImage
    /\ \A i \in 1..Len(eye.eyes) :
          eye.eyes[i].original_pixels =
              SubsurfaceCopy(EyeImage, eye.eyes[i].padded_rect[1],
                             eye.eyes[i].padded_rect[2],
                             eye.eyes[i].padded_rect[3],
                             eye.eyes[i].padded_rect[4])

\* The eye box lies inside the screen.
EyeInsideScreen(e, W, H) ==
    e.x >= 0 /\ e.y >= 0 /\ e.x + e.w <= W /\ e.y + e.h <= H

\* dist < blend_start = 0.7 at (x, y) of the pupil rectangle (line 266).
InsideInnerRadius(x, y, pupil_w, pupil_h) ==
    LET ax == 2 * (x - pupil_w \div 2)
        ay == 2 * (y - pupil_h \div 2)
    IN  100 * (ax * ax * pupil_h * pupil_h + ay * ay * pupil_w * pupil_w)
            < 49 * pupil_w * pupil_w * pupil_h * pupil_h

\* C20: for an eye inside the screen, _shift_eye_pixels with shift (0, 0),
\* applied to whatever frame current_surface holds, leaves every pixel
\* within the 70% inner radius of the pupil ellipse equal to the pixel of
\* the original image; applied to a copy of the original, as update() does,
\* it leaves the whole surface equal to the original.
C20_ZeroShiftKeepsOriginal ==
    eye # None =>
        \A i \in 1..Len(eye.eyes) :
            LET e == eye.eyes[i]
                g == PupilRect(e, 0, 0)
                px == e.padded_rect[1]
                py == e.padded_rect[2]
            IN  EyeInsideScreen(e, eye.screen_width, eye.screen_height) =>
                  /\ \E out \in {ShiftEyePixels(eye.current_surface, e, 0, 0)} :
                        \A x \in 0..(g.pupil_w - 1), y \in 0..(g.pupil_h - 1) :
                            InsideInnerRadius(x, y, g.pupil_w, g.pupil_h) =>
                                out[<<px + g.pupil_x + x, py + g.pupil_y + y>>]
                                  = eye.original[<<px + g.pupil_x + x,
                                                   py + g.pupil_y + y>>]
                  /\ ShiftEyePixels(eye.original, e, 0, 0) = eye.original

\* An update whose gaze offset truncates to (0, 0), on an eye inside the
\* screen whose pupil has pixels within the inner radius and in the blend
\* ring, and whose frame equals the original.
C20_Witness ==
    /\ eye # None /\ eye.time > 0 /\ ~eye.is_complete
    /\ GazeShift(eye.time) = <<0, 0>>
    /\ eye.current_surface = eye.original
    /\ \E i \in 1..Len(eye.eyes) :
          LET e == eye.eyes[i]
              g == PupilRect(e, 0, 0)
          IN  /\ EyeInsideScreen(e, eye.screen_width, eye.screen_height)
              /\ \E x \in 0..(g.pupil_w - 1), y \in 0..(g.pupil_h - 1) :
                    InsideInnerRadius(x, y, g.pupil_w, g.pupil_h)
              /\ \E x \in 0..(g.pupil_w - 1), y \in 0..(g.pupil_h - 1) :
                    /\ InsideEllipse(x, y, g.pupil_w, g.pupil_h)
                    /\ ~InsideInnerRadius(x, y, g.pupil_w, g.pupil_h)

(***************************************************************************)
(* Further claims about FlipTile, checked under SpecTile.                  *)
(***************************************************************************)

\* C21: on every update() line_alpha moves toward its end value (0 when not
\* reverse, 255 when reverse) by the same constant step LINE_FADE_SPEED,
\* whether the tile is delayed, animating or complete, and it stays within
\* [0, 255].
C21_LineFadeAtFixedRate ==
    [][/\ tile.line_alpha >= 0 /\ tile.line_alpha <= 255
       /\ tile'.line_alpha >= 0 /\ tile'.line_alpha <= 255
       /\ tile'.line_alpha =
            IF tile.reverse THEN Min(255, tile.line_alpha + LINE_FADE_SPEED)
            ELSE Max(0, tile.line_alpha - LINE_FADE_SPEED)]_vars

\* C22: the state sequence has target_flips + 1 elements (2 to 5) and every
\* element after the first, the forced final one included, is the mirror
\* along the flip axis of the element before it, in the order the states
\* were built (the stored sequence is its reversal when reverse is set); the
\* same for the soft-edge sequence.
C22_EachStateMirrorsPrevious ==
    LET built == IF tile.reverse THEN Reversed(tile.flip_surfaces)
                 ELSE tile.flip_surfaces
        built_soft == IF tile.reverse THEN Reversed(tile.flip_surfaces_soft)
                      ELSE tile.flip_surfaces_soft
    IN  /\ Len(built) = tile.target_flips + 1
        /\ Len(built) \in 2..5
        /\ Len(built_soft) = Len(built)
        /\ \A i \in 2..Len(built) :
              /\ built[i] = FlipOnce(built[i - 1], tile.flip_direction)
              /\ built_soft[i] = FlipOnce(built_soft[i - 1], tile.flip_direction)

\* C23: draw() selects state[0] while the tile is idle; while animating,
\* with i = min(floor(flip_angle / 180), N - 1), state[i] when flip_angle
\* mod 180 < 90 and state[i + 1] otherwise; the final state once complete.
\* The selected index is within 0..N and never decreases from one tick to
\* the next.  (Sequences are 1-based here: state[i] is flip_surfaces[i + 1].)
C23_DrawSelectsBracketState ==
    /\ [](LET N == tile.target_flips
              i == Min(tile.flip_angle \div 180, N - 1)
              expected == IF tile.is_complete THEN N
                          ELSE IF ~tile.is_animating THEN 0
                          ELSE IF tile.flip_angle % 180 < 90 THEN i ELSE i + 1
          IN  /\ DrawIndex(tile) = expected
              /\ DrawIndex(tile) \in 0..N
              /\ DrawSurface(tile, FALSE) = tile.flip_surfaces[expected + 1]
              /\ ~tile.is_complete =>
                    DrawSurface(tile, TRUE) = tile.flip_surfaces_soft[expected + 1])
    /\ [][DrawIndex(tile') >= DrawIndex(tile)]_vars

\* An animating tile in the second half of its third flip, drawn from the
\* state after the bracket's lower one.
C23_Witness ==
    /\ tile.is_animating /\ ~tile.is_complete /\ tile.target_flips = 4
    /\ tile.flip_angle \div 180 = 2 /\ tile.flip_angle % 180 >= 90
    /\ DrawIndex(tile) = 3
    /\ DrawSurface(tile, FALSE) # DrawSurface(tile, TRUE)

\* C24: while current_delay > 0 each update() decrements current_delay by
\* exactly one and leaves flip_angle = 0 and is_animating = false, so a tile
\* created with delay d first advances flip_angle on update number d + 1;
\* from then on every update adds flip_speed until is_complete is set at
\* total_rotation.
C24_NoAnimationBeforeDelay ==
    /\ [](/\ tile.current_delay \in 0..tile.delay
          /\ tile.current_delay > 0 =>
                /\ tile.flip_angle = 0
                /\ ~tile.is_animating /\ ~tile.is_complete)
    /\ [][/\ tile.current_delay > 0 =>
                /\ tile'.current_delay = tile.current_delay - 1
                /\ tile'.flip_angle = 0 /\ ~tile'.is_animating
          /\ (tile.current_delay = 0 /\ ~tile.is_complete) =>
                /\ tile'.current_delay = 0
                /\ tile'.is_animating
                /\ tile'.flip_angle =
                       Min(tile.flip_angle + tile.flip_speed, tile.total_rotation)
                /\ tile'.is_complete =
                       (tile.flip_angle + tile.flip_speed >= tile.total_rotation)]_vars

\* Update number d + 1 of a tile with the longest delay: the delay has run
\* out and the angle has advanced once.
C24_Witness ==
    /\ tile.delay = MaxTileDelay /\ tile.current_delay = 0
    /\ tile.is_animating /\ ~tile.is_complete
    /\ tile.flip_angle = tile.flip_speed

(***************************************************************************)
(* Further claims about DesktopAnimationTool, checked under Spec.          *)
(***************************************************************************)

\* The cells (col, row) of the grid of the session's tool.
GridCells == (0..(GridCols(tool) - 1)) \X (0..(GridRows(tool) - 1))

\* C25: every tile delay of a grid built by _create_tiles is a non-negative
\* integer, non-decreasing in the distance to the screen centre when not
\* reversed (ripple: up to the jitter of 0..4 within a ring), and reverse
\* inverts the order: for any two tiles a and b, forward delay(a) < forward
\* delay(b) implies reverse delay(a) > reverse delay(b).
C25_ReverseInvertsDelayOrder ==
    (tool # None /\ tool.pc # "init" /\ Len(tiles) > 0) =>
        /\ Len(tiles) = GridCount(tool)
        /\ \A a \in GridCells :
              /\ tiles[a[2] * GridCols(tool) + a[1] + 1].delay
                    = TileDelay(tool, a[1], a[2])
              /\ TileDelay(tool, a[1], a[2]) \in Nat
        /\ \A a, b \in GridCells :
              /\ CentreDist2(tool, a[1], a[2]) <= CentreDist2(tool, b[1], b[2])
                    => ForwardDelay(tool, a[1], a[2])
                         <= ForwardDelay(tool, b[1], b[2])
                            + (IF tool.effect_mode = "ripple" THEN 4 ELSE 0)
              /\ ForwardDelay(tool, a[1], a[2]) < ForwardDelay(tool, b[1], b[2])
                    => ReverseDelay(tool, a[1], a[2]) > ReverseDelay(tool, b[1], b[2])

\* C26: when restart_interval > 0 and the session became Complete at clock
\* reading T >= 0, the update() whose auto-restart test would read a clock
\* value of at least T + restart_interval seconds restarts the session:
\* all_complete becomes false, complete_time is cleared and the effect is
\* back in its initial state.
C26_RestartsOnceIntervalElapsed ==
    (tool # None /\ tool.pc = "update" /\ tool.all_complete
        /\ tool.restart_interval > 0 /\ tool.complete_time # NoTime) =>
        \A r \in ClockReadings :
            r >= tool.complete_time + tool.restart_interval * 1000 =>
                /\ AutoRestartArmed(tool)
                /\ IntervalElapsed(r, tool.complete_time, tool.restart_interval)
                /\ LET s == RestartAnimation(Session)
                   IN  /\ ~s.tool.all_complete
                       /\ s.tool.complete_time = NoTime
                       /\ EyesActive(tool, eye) =>
                             /\ s.eye.time = 0 /\ ~s.eye.is_complete
                             /\ s.eye.current_surface = s.eye.original
                       /\ HiddenActive(tool, hidden) =>
                             /\ s.hidden.time = 0 /\ ~s.hidden.is_complete
                             /\ s.hidden.current_surface = s.hidden.original
                       /\ TilingActive(tool, eye, hidden) => s.recreate

\* C27: once a QUIT or ESC event has set running to false it is never true
\* again; the iteration in which it was set still performs its update and
\* its draw, and no further iteration begins; within every iteration the
\* phases follow each other in the order handle_events, update, draw.
C27_CooperativeCancellation ==
    /\ [](tool.pc \in {"init", "events"} => tool.running)
    /\ [][/\ ~tool.running => ~tool'.running
          /\ tool.pc = "events" => tool'.pc = "update"
          /\ tool.pc = "update" => tool'.pc = "draw"
          /\ tool.pc = "draw" =>
                tool'.pc = IF tool.running THEN "events" ELSE "quit"
          /\ tool.pc = "quit" => tool'.pc = "quit"]_vars

\* A session ended by its only input event, after the update and the draw
\* of the iteration that received it.
C27_Witness ==
    /\ tool.pc = "quit" /\ ~tool.running /\ tool.events_left = 0
    /\ Len(tiles) > 0 /\ \E i \in 1..Len(tiles) : tiles[i].flip_angle > 0

(***************************************************************************)
(* SpecLive: the objects ticked without user input.  One behaviour follows  *)
(* one object from its construction: a FlipTile, an EyeEffect, a            *)
(* HiddenEffect, or a whole session whose event queue stays empty.  The     *)
(* loop of run() keeps calling update(), hence the weak fairness.           *)
(***************************************************************************)
\* HiddenEffect(image, W, H, polygon_data), with and without OpenCV.
InitLiveHidden ==
    /\ \E regions \in RegionLists, has_cv2 \in BOOLEAN :
          hidden = HiddenEffectNew(SourceImage(HidScreenW, HidScreenH),
                                   HidScreenW, HidScreenH, regions, has_cv2)
    /\ tile = None /\ eye = None /\ synth = None
    /\ tool = None /\ tiles = <<>> /\ clock = 0 /\ selector = None

InitLive == InitTile \/ InitEye \/ InitLiveHidden \/ Init

\* tile.update() once more
LiveTileUpdate == tile # None /\ TileUpdate

\* eye_effect.update() once more
LiveEyeUpdate == tool = None /\ eye # None /\ EyeUpdate

\* hidden_effect.update() once more
LiveHiddenUpdate ==
    /\ tool = None /\ hidden # None
    /\ hidden' = HiddenEffectUpdate(hidden)
    /\ UNCHANGED <<tile, eye, synth, tool, tiles, clock, selector>>

\* run(): handle_events() when pygame.event.get() returns no event.
ToolNoEvents ==
    /\ tool # None /\ tool.pc = "events"
    /\ tool' = [HandleEventList(Session, <<>>).tool EXCEPT !.pc = "update"]
    /\ UNCHANGED <<tile, eye, hidden, synth, tiles, clock, selector>>

LiveToolInitEffects == tool # None /\ ToolInitEffects
LiveToolUpdate == tool # None /\ ToolUpdate
LiveToolDraw == tool # None /\ ToolDraw

NextLive ==
    \/ LiveTileUpdate \/ LiveEyeUpdate \/ LiveHiddenUpdate
    \/ LiveToolInitEffects \/ ToolNoEvents \/ LiveToolUpdate \/ LiveToolDraw

\* What a tick that does anything changes: the countdown, angle and fade of
\* the tile, the clocks of the effects and the position within the loop of
\* run().
LiveProgress ==
    << IF tile # None
       THEN <<tile.current_delay, tile.flip_angle, tile.line_alpha>> ELSE <<>>,
       IF eye # None THEN eye.time ELSE NoTime,
       IF hidden # None THEN hidden.time ELSE NoTime,
       IF tool # None THEN tool.pc ELSE "" >>

SpecLive == InitLive /\ [][NextLive]_vars /\ WF_LiveProgress(NextLive)

\* Complete, for whichever objects the behaviour has.
LiveComplete ==
    /\ tile # None => tile.is_complete /\ LinesDone(tile, tile.reverse)
    /\ (eye # None /\ Len(eye.eyes) > 0) => eye.is_complete
    /\ hidden # None => hidden.is_complete
    /\ tool # None => tool.all_complete

\* C28: without user input repeated ticks lead to completion: every
\* FlipTile eventually is complete with its cut-line fade finished, a tiling
\* session eventually has all_complete set, an EyeEffect with at least one
\* eye and a HiddenEffect with a hidden composite eventually are complete.
C28_TicksLeadToComplete == []<>LiveComplete

\* A reverse tile with the longest delay, four flips at the lowest speed,
\* complete and with its cut lines fully faded in.
C28_Witness ==
    /\ tile # None /\ tile.reverse /\ tile.delay = MaxTileDelay
    /\ tile.target_flips = 4 /\ tile.flip_speed = FLIP_SPEED - SpeedJitter
    /\ tile.is_complete /\ LinesDone(tile, tile.reverse)

(***************************************************************************)
(* Claim about the tile grid, checked under Spec.                          *)
(***************************************************************************)

\* The squares of tiles a and b share no pixel.
SquaresDisjoint(a, b) ==
    \/ a.x + a.size <= b.x \/ b.x + b.size <= a.x
    \/ a.y + a.size <= b.y \/ b.y + b.size <= a.y

\* The number of screen pixels inside the square of tile t.
PixelsOnScreen(t, W, H) ==
    Max(0, Min(t.x + t.size, W) - Max(t.x, 0))
        * Max(0, Min(t.y + t.size, H) - Max(t.y, 0))

RECURSIVE PixelsCovered(_, _, _, _)
\* The sum of PixelsOnScreen over the first n tiles of ts.
PixelsCovered(ts, n, W, H) ==
    IF n = 0 THEN 0
    ELSE PixelsCovered(ts, n - 1, W, H) + PixelsOnScreen(ts[n], W, H)

\* ts is the grid _create_tiles builds for session t: one tile per cell,
\* not yet turned, the squares pairwise disjoint and covering the screen
\* (disjoint squares that hold W * H screen pixels between them hold every
\* screen pixel).
FreshGrid(ts, t) ==
    /\ Len(ts) = CeilDiv(t.screen_width, t.square_size)
                     * CeilDiv(t.screen_height, t.square_size)
    /\ \A i \in 1..Len(ts) :
          /\ ts[i].size = t.square_size
          /\ ts[i].flip_angle = 0 /\ ~ts[i].is_complete /\ ~ts[i].is_animating
          /\ ts[i].current_delay = ts[i].delay
    /\ \A i, j \in 1..Len(ts) : i # j => SquaresDisjoint(ts[i], ts[j])
    /\ PixelsCovered(ts, Len(ts), t.screen_width, t.screen_height)
           = t.screen_width * t.screen_height

\* The step is a handle_events() that got keys, none of them QUIT or ESC:
\* every one of them is SPACE, UP or DOWN and restarts.
RestartedByKey ==
    /\ tool.pc = "events"
    /\ tool'.events_left < tool.events_left /\ tool'.running

\* The step is an update() whose auto-restart fired.
RestartedByTimer ==
    /\ tool.pc = "update" /\ TilingActive(tool, eye, hidden)
    /\ tool.restart_interval > 0
    /\ tool'.complete_time = NoTime
    /\ \/ tool.complete_time # NoTime
       \/ /\ clock' - clock >= tool.restart_interval * 1000
          /\ UpdateEffects(tool, eye, hidden, tiles).done

\* The tile sizes next to the two ends of the allowed range.
ClampSizes ==
    (MIN_SQUARE_SIZE..(MIN_SQUARE_SIZE + 10))
        \cup ((MAX_SQUARE_SIZE - 10)..MAX_SQUARE_SIZE)

\* C29: after construction and after every restart or UP/DOWN size change in
\* tiling mode the tile list is a grid of ceil(W/size) * ceil(H/size) fresh
\* tiles whose squares are pairwise disjoint and cover the screen;
\* square_size stays within [MIN_SQUARE_SIZE, MAX_SQUARE_SIZE], also from
\* the sizes next to either end of the range.
C29_TileGridReplacedWholesale ==
    /\ [](tool.square_size \in MIN_SQUARE_SIZE..MAX_SQUARE_SIZE)
    /\ [](tool.pc = "events" =>
            \A sz \in ClampSizes, ev \in {"K_UP", "K_DOWN"} :
               HandleEvent([Session EXCEPT !.tool.square_size = sz],
                           ev).tool.square_size
                   \in MIN_SQUARE_SIZE..MAX_SQUARE_SIZE)
    /\ [][/\ (tool.pc = "init" /\ tool'.effect_mode \in {"flip", "ripple"})
             => FreshGrid(tiles', tool')
          /\ (RestartedByKey \/ RestartedByTimer) =>
                (TilingActive(tool', eye', hidden') => FreshGrid(tiles', tool'))
         ]_vars

\* A session right after an UP key made the tiles larger: the new grid is
\* fresh and one of its tiles reaches past the right edge of the screen.
C29_Witness ==
    /\ tool.pc = "update" /\ tool.events_left = 0
    /\ tool.square_size = MIN_SQUARE_SIZE + 10
    /\ TilingActive(tool, eye, hidden) /\ FreshGrid(tiles, tool)
    /\ \E i \in 1..Len(tiles) :
          tiles[i].x + tiles[i].size > tool.screen_width

(***************************************************************************)
(* 5. PolygonSelector (src/effects/polygon_selector.py)                    *)
(*                                                                         *)
(* SpecSelector: the selector from its construction through run().  One    *)
(* step of handle_events takes the whole list pygame.event.get() returns.  *)
(* The image is not larger than the selector window, so scale = 1.0.       *)
(***************************************************************************)
MaxPoints == 3
MaxStored == 2
MaxBatch == 2

SelectorModes == {"eyes", "hidden", "hidden_clone"}

\* The positions a left click may have.
ClickPoints == {<<3, 2>>}

\* PolygonSelector.__init__, lines 63-84.
SelectorNew(mode) ==
    [mode |-> mode, polygons |-> <<>>, source_polygons |-> <<>>,
     current_polygon |-> <<>>, current_region |-> 1,
     selecting_source |-> FALSE, current_target_polygon |-> None,
     running |-> TRUE, saved |-> FALSE, entered |-> FALSE,
     pc |-> "events", result |-> None]

\* The events _handle_events reacts to; `entered` records that a RETURN key
\* was handled.
SelectorEvents ==
    {[type |-> t, pos |-> <<0, 0>>] :
        t \in {"QUIT", "K_ESCAPE", "K_RETURN", "K_BACKSPACE", "RIGHT"}}
    \cup {[type |-> "LEFT", pos |-> p] : p \in ClickPoints}

\* Lines 130-147: K_RETURN.
SelectorReturn(s) ==
    LET stored ==
            IF Len(s.current_polygon) >= 3
            THEN IF s.mode = "hidden_clone" /\ s.selecting_source
                 THEN [s EXCEPT !.source_polygons =
                                    Append(@, s.current_polygon),
                                !.selecting_source = FALSE]
                 ELSE [s EXCEPT !.polygons = Append(@, s.current_polygon)]
            ELSE s
    IN  [stored EXCEPT !.saved = @ \/ Len(stored.polygons) > 0,
                       !.running = FALSE, !.entered = TRUE]

\* Lines 167-195: right click.
SelectorRightClick(s) ==
    IF Len(s.current_polygon) < 3 THEN s
    ELSE IF s.mode = "hidden_clone"
    THEN IF s.selecting_source
         THEN [s EXCEPT !.source_polygons = Append(@, s.current_polygon),
                        !.selecting_source = FALSE,
                        !.current_polygon = <<>>,
                        !.current_region = @ + 1]
         ELSE [s EXCEPT !.polygons = Append(@, s.current_polygon),
                        !.current_target_polygon = s.current_polygon,
                        !.current_polygon = <<>>,
                        !.selecting_source = TRUE]
    ELSE [s EXCEPT !.polygons = Append(@, s.current_polygon),
                   !.current_polygon = <<>>,
                   !.current_region = @ + 1]

\* The body of the for loop of _handle_events, for one event.
SelectorHandleEvent(s, ev) ==
    IF ev.type \in {"QUIT", "K_ESCAPE"} THEN [s EXCEPT !.running = FALSE]
    ELSE IF ev.type = "K_RETURN" THEN SelectorReturn(s)
    ELSE IF ev.type = "K_BACKSPACE"
    THEN IF Len(s.current_polygon) > 0
         THEN [s EXCEPT !.current_polygon = SubSeq(@, 1, Len(@) - 1)]
         ELSE s
    ELSE IF ev.type = "LEFT"
    THEN [s EXCEPT !.current_polygon = Append(@, ev.pos)]
    ELSE SelectorRightClick(s)

RECURSIVE SelectorHandleEventList(_, _)
\* for event in pygame.event.get(): ...
SelectorHandleEventList(s, evs) ==
    IF evs = <<>> THEN s
    ELSE SelectorHandleEventList(SelectorHandleEvent(s, Head(evs)), Tail(evs))

\* One entry of polygon_data (lines 292-333) at scale 1.0: the polygon and,
\* in clone mode, the source polygon of the same index if there is one.
PolygonEntry(s, i) ==
    [polygon |-> s.polygons[i],
     source_polygon |->
         IF s.mode = "hidden_clone" /\ i <= Len(s.source_polygons)
         THEN s.source_polygons[i] ELSE <<>>]

\* _get_polygon_data(): the entries of the polygons with at least 3 points.
GetPolygonData(s) ==
    SelectSeq([i \in 1..Len(s.polygons) |-> PolygonEntry(s, i)],
              LAMBDA d : Len(d.polygon) >= 3)

\* The lists are kept within the sizes explored.
SelectorWithinBounds(s) ==
    /\ Len(s.current_polygon) <= MaxPoints
    /\ Len(s.polygons) <= MaxStored
    /\ Len(s.source_polygons) <= MaxStored

\* The event lists one pygame.event.get() may return.
SelectorEventLists == UNION {[1..k -> SelectorEvents] : k \in 0..MaxBatch}

InitSelector ==
    /\ \E mode \in SelectorModes : selector = SelectorNew(mode)
    /\ tile = None /\ eye = None /\ hidden = None /\ synth = None
    /\ tool = None /\ tiles = <<>> /\ clock = 0

\* run(): self._handle_events()
SelectorHandleEvents ==
    /\ selector.pc = "events"
    /\ \E evs \in SelectorEventLists :
       \E s \in {SelectorHandleEventList(selector, evs)} :
          /\ SelectorWithinBounds(s)
          /\ selector' = [s EXCEPT !.pc = "draw"]
    /\ UNCHANGED <<tile, eye, hidden, synth, tool, tiles, clock>>

\* run(): self._draw(), the test of the while loop and, once the loop has
\* ended, the return value (lines 109-118).
SelectorDraw ==
    /\ selector.pc = "draw"
    /\ selector' =
          IF selector.running THEN [selector EXCEPT !.pc = "events"]
          ELSE [selector EXCEPT
                   !.pc = "done",
                   !.result = IF selector.saved /\ Len(selector.polygons) > 0
                              THEN [data |-> GetPolygonData(selector)]
                              ELSE None]
    /\ UNCHANGED <<tile, eye, hidden, synth, tool, tiles, clock>>

NextSelector == SelectorHandleEvents \/ SelectorDraw

SpecSelector == InitSelector /\ [][NextSelector]_vars

\* C30: every polygon stored in polygons and source_polygons has at least
\* 3 points; in clone mode len(source_polygons) <= len(polygons) <=
\* len(source_polygons) + 1; run() returns data only after ENTER with at
\* least one stored polygon and None otherwise.
C30_StoredPolygonsPaired ==
    /\ \A i \in 1..Len(selector.polygons) : Len(selector.polygons[i]) >= 3
    /\ \A i \in 1..Len(selector.source_polygons) :
          Len(selector.source_polygons[i]) >= 3
    /\ selector.mode = "hidden_clone" =>
          /\ Len(selector.source_polygons) <= Len(selector.polygons)
          /\ Len(selector.polygons) <= Len(selector.source_polygons) + 1
    /\ selector.pc = "done" =>
          IF selector.entered /\ Len(selector.polygons) > 0
          THEN selector.result = [data |-> GetPolygonData(selector)]
          ELSE selector.result = None

====
